---- MODULE Spec2Model ----
(***************************************************************************)
(* A model of the local-first sync engine of prompt-manager:               *)
(*   - the Zustand store (src/sync/store.ts),                              *)
(*   - the Dexie/IndexedDB database (src/sync/database.ts),                *)
(*   - the SyncEngine (src/sync/engine.ts),                                *)
(*   - the mock sync backend (server.js, /api/sync and /api/mutations).    *)
(* JavaScript runs each handler to its next await, so there is one action  *)
(* per run-to-completion segment; a fetch is a request that the server     *)
(* handles in one step and whose response the client handles in another.   *)
(***************************************************************************)
EXTENDS Integers, Sequences, FiniteSets, Bags, TLC

VARIABLES
    store,          \* the Zustand store: prompts, promptVersions, groups, syncState, isHydrated
    db,             \* IndexedDB: prompts, promptVersions, groups, pendingMutations, syncMetadata
    engine,         \* SyncEngine fields: isRunning, isPushing, pollTimer, pushTimer (the
                    \* delay of the pending timeout, or NoTimer), clientId; and the
                    \* timers of the engine that the event loop holds
    phase,          \* position of the page's boot sequence (hooks.ts useSyncEngine)
    syncs,          \* bag of sync() calls suspended in fetch
    pushes,         \* bag of push() calls suspended in getPendingMutations or in fetch
    online,         \* navigator.onLine
    mockDB,         \* the server's maps and operation log
    currentSyncId,  \* the server's counter
    clock,          \* wall clock in milliseconds, as read by new Date()
    minted,         \* how many random ids have been drawn: entities, clientIds
    budget,         \* how many more environment events of each kind may happen
    hist            \* history of the run, read by the properties only

vars == <<store, db, engine, phase, syncs, pushes, online, mockDB, currentSyncId,
          clock, minted, budget, hist>>

-----------------------------------------------------------------------------
(* Bounds of the model *)

ApiWrites == 2          \* requests to POST /api/mutations (ApiSpec)
MaxBatch == 2           \* mutations in one request (ApiSpec)
MaxLimit == 3           \* the largest limit of a request to POST /api/sync (ApiSpec)
DurableEvents == 3      \* DurableSpec: poll ticks, reloads and foreign writes per run
ChainOps == 2           \* ChainSpec: local mutations per run
ChainEvents == 2        \* ChainSpec: foreign writes and reloads per run
MaxLocalOps == 1        \* Spec: local mutations per run
MaxEvents == 2          \* Spec: other environment events per run (forced or polled
                        \* calls, rejected fetches, reloads, connectivity changes,
                        \* foreign writes)
MaxClock == 1           \* milliseconds that pass per run
QueueOps == 2           \* QueueSpec: local mutations per run
QueueEvents == 1        \* QueueSpec: other environment events per run
RetryOps == 2           \* RetrySpec: local mutations per run
RetryEvents == 2        \* RetrySpec: server restarts and forcePush calls per run
ConfigOps == 2          \* ConfigSpec: local mutations per run
ConfigEvents == 1       \* ConfigSpec: reloads per run
RoundOps == 1           \* RoundSpec: local mutations per run
RoundEvents == 2        \* RoundSpec: connectivity changes per run
StopOps == 1            \* StopSpec: local mutations per run
StopEvents == 3         \* StopSpec: stops, restarts of the loop, poll ticks, bulk writes
LiveOps == 1            \* FairSpec: local mutations per run
LivePulls == 1          \* FairSpec: pulls in flight that a poll tick adds to, plus one

(* Program constants *)

BatchSize == 10         \* engine.ts: pendingMutations.slice(0, 10)
SyncLimit == 100        \* engine.ts: limit: 100
DefaultLimit == 100     \* server.js: limit = 100
MaxRetries == 5         \* engine.ts DEFAULT_CONFIG.maxRetries
PollInterval == 5000    \* engine.ts DEFAULT_CONFIG.pollInterval
InitialRetryDelay == 1000   \* engine.ts DEFAULT_CONFIG.initialRetryDelay
DrainDelay == 100       \* engine.ts: schedulePush(100)
NoTimer == 0            \* engine.ts: pushTimer = null

-----------------------------------------------------------------------------
(* Generic helpers *)

Min(a, b) == IF a < b THEN a ELSE b

Max(a, b) == IF a > b THEN a ELSE b

\* { ...e, ...p }: object spread, the right operand wins
Spread(e, p) == p @@ e

\* Map.set(id, e)
MapSet(m, id, e) == (id :> e) @@ m

EmptyMap == [k \in {} |-> 0]

\* !e.isDeleted is true of an entity without the optional flag
IsDeleted(e) == "isDeleted" \in DOMAIN e /\ e.isDeleted

RECURSIVE SeqToSet(_)
SeqToSet(s) == IF s = <<>> THEN {} ELSE {Head(s)} \cup SeqToSet(Tail(s))

\* array.slice(0, n)
Slice(s, n) == SubSeq(s, 1, Min(n, Len(s)))

EntityTypes == {"prompt", "prompt_version", "group"}

\* server.js changesKey / entityMap and the store's three maps
TableOf(entityType) ==
    CASE entityType = "prompt" -> "prompts"
      [] entityType = "prompt_version" -> "promptVersions"
      [] entityType = "group" -> "groups"

Tables == {"prompts", "promptVersions", "groups"}

\* uuid(): the n-th random entity id
UuidNames == <<"u1", "u2", "u3", "u4", "u5", "u6", "u7", "u8">>

Uuid(n) == UuidNames[n]

-----------------------------------------------------------------------------
(* The mock sync backend (server.js) *)

\* recordOperation: bump the counter, log a copy of the entity stamped with
\* the new syncId, and stamp the stored entity unless the operation is a
\* delete.  S is [db |-> mockDB, sid |-> currentSyncId].
RecordOperation(S, entityType, entityId, operation, entity) ==
    LET sid == S.sid + 1
        op == [syncId |-> sid, entityType |-> entityType, entityId |-> entityId,
               operation |-> operation,
               entity |-> Spread(entity, [syncId |-> sid])]
        tab == TableOf(entityType)
        stamped == IF operation # "delete"
                   THEN MapSet(S.db[tab], entityId, Spread(entity, [syncId |-> sid]))
                   ELSE S.db[tab]
    IN [db |-> [S.db EXCEPT ![tab] = stamped,
                            !.operations = Append(@, op)],
        sid |-> sid]

SeedGroups ==
    << [id |-> "group-1", type |-> "group", name |-> "Work", createdAt |-> 0, updatedAt |-> 0],
       [id |-> "group-2", type |-> "group", name |-> "Personal", createdAt |-> 0, updatedAt |-> 0],
       [id |-> "group-3", type |-> "group", name |-> "Development", createdAt |-> 0, updatedAt |-> 0] >>

SeedPrompts ==
    << [id |-> "prompt-1", type |-> "prompt", title |-> "Code Review Assistant",
        isFavorite |-> TRUE, groupId |-> "group-3", createdAt |-> 0, updatedAt |-> 0],
       [id |-> "prompt-2", type |-> "prompt", title |-> "Creative Writing Partner",
        isFavorite |-> FALSE, groupId |-> "group-2", createdAt |-> 0, updatedAt |-> 0],
       [id |-> "prompt-3", type |-> "prompt", title |-> "Data Analysis Expert",
        isFavorite |-> TRUE, groupId |-> "group-1", createdAt |-> 0, updatedAt |-> 0] >>

RECURSIVE SeedAll(_, _)
SeedAll(S, entities) ==
    IF entities = <<>> THEN S
    ELSE LET e == Head(entities)
             put == [S EXCEPT !.db[TableOf(e.type)] = MapSet(@, e.id, e)]
         IN SeedAll(RecordOperation(put, e.type, e.id, "create", e), Tail(entities))

\* seedMockData: three groups, then three prompts
SeedMockData ==
    SeedAll([db |-> [prompts |-> EmptyMap, promptVersions |-> EmptyMap,
                     groups |-> EmptyMap, operations |-> <<>>],
             sid |-> 0],
            SeedGroups \o SeedPrompts)

\* payload: null
Null == [null |-> TRUE]

\* One iteration of the loop of POST /api/mutations.
\* R is [S |-> server state, results |-> results so far, newSyncId |-> n].
ApplyMutation(R, mutation, now) ==
    LET S == R.S
        mutationId == mutation.id
        entityType == mutation.entityType
        entityId == mutation.entityId
        payload == mutation.payload
        fail(msg) == [R EXCEPT !.results =
                         Append(@, [mutationId |-> mutationId, success |-> FALSE, error |-> msg])]
    IN IF entityType \notin EntityTypes THEN fail("Unknown entity type")
       ELSE LET tab == TableOf(entityType)
                entityMap == S.db[tab]
            IN CASE mutation.operation = "create" ->
                    IF payload = Null THEN fail("TypeError")
                    ELSE LET entity == Spread(payload,
                                 [id |-> entityId, type |-> entityType,
                                  createdAt |-> IF "createdAt" \in DOMAIN payload
                                                THEN payload.createdAt ELSE now,
                                  updatedAt |-> now])
                             S1 == [S EXCEPT !.db[tab] = MapSet(@, entityId, entity)]
                             S2 == RecordOperation(S1, entityType, entityId, "create", entity)
                         IN [S |-> S2,
                             results |-> Append(R.results,
                                 [mutationId |-> mutationId, success |-> TRUE,
                                  entity |-> S2.db[tab][entityId]]),
                             newSyncId |-> S2.sid]
                 [] mutation.operation = "update" ->
                    IF entityId \notin DOMAIN entityMap THEN fail("Entity not found")
                    ELSE LET updated == Spread(Spread(entityMap[entityId],
                                                      IF payload = Null THEN EmptyMap ELSE payload),
                                               [updatedAt |-> now])
                             S1 == [S EXCEPT !.db[tab] = MapSet(@, entityId, updated)]
                             S2 == RecordOperation(S1, entityType, entityId, "update", updated)
                         IN [S |-> S2,
                             results |-> Append(R.results,
                                 [mutationId |-> mutationId, success |-> TRUE,
                                  entity |-> S2.db[tab][entityId]]),
                             newSyncId |-> S2.sid]
                 [] mutation.operation = "delete" ->
                    LET ok == Append(R.results, [mutationId |-> mutationId, success |-> TRUE])
                    IN IF entityId \in DOMAIN entityMap
                       THEN LET existing == Spread(entityMap[entityId],
                                                   [isDeleted |-> TRUE, updatedAt |-> now])
                                S1 == [S EXCEPT !.db[tab] = MapSet(@, entityId, existing)]
                                S2 == RecordOperation(S1, entityType, entityId, "delete", existing)
                            IN [S |-> S2, results |-> ok, newSyncId |-> S2.sid]
                       ELSE [R EXCEPT !.results = ok]
                 [] OTHER -> R

\* a loop that ends at the first mutation that fails
RECURSIVE ApplyMutationsUntilFailure(_, _, _)
ApplyMutationsUntilFailure(R, mutations, now) ==
    IF mutations = <<>> THEN R
    ELSE LET R1 == ApplyMutation(R, Head(mutations), now)
         IN IF R1.results[Len(R1.results)].success
            THEN ApplyMutationsUntilFailure(R1, Tail(mutations), now)
            ELSE R1

\* the loop of POST /api/mutations, in request order.  The request is folded
\* by halves, and the comparison makes TLC compute the first half before it
\* enters the second, so that a long request is evaluated at logarithmic depth.
RECURSIVE ApplyMutations(_, _, _)
ApplyMutations(R, mutations, now) ==
    IF mutations = <<>> THEN R
    ELSE IF Len(mutations) = 1 THEN ApplyMutation(R, mutations[1], now)
    ELSE LET half == Len(mutations) \div 2
             R1 == ApplyMutations(R, SubSeq(mutations, 1, half), now)
             rest == SubSeq(mutations, half + 1, Len(mutations))
         IN IF R1 = R THEN ApplyMutations(R, rest, now) ELSE ApplyMutations(R1, rest, now)

\* POST /api/mutations: the new server state and the response body
MutationsEndpoint(S, mutations, now) ==
    LET R == ApplyMutations([S |-> S, results |-> <<>>, newSyncId |-> S.sid], mutations, now)
    IN [S |-> R.S,
        response |-> [success |-> \A i \in 1..Len(R.results) : R.results[i].success,
                      syncId |-> R.newSyncId,
                      results |-> R.results]]

\* entityStates: the keys in order of first insertion
EntityKeys(ops, seen) ==
    LET key(i) == <<ops[i].entityType, ops[i].entityId>>
        firsts == SelectSeq([i \in 1..Len(ops) |-> i],
                            LAMBDA i : key(i) \notin seen
                                       /\ \A j \in 1..(i - 1) : key(j) # key(i))
    IN [n \in 1..Len(firsts) |-> key(firsts[n])]

\* the first operation set under the key, in place of the last
FirstOp(ops, key) ==
    LET idx == {i \in 1..Len(ops) : <<ops[i].entityType, ops[i].entityId>> = key}
    IN ops[CHOOSE i \in idx : \A j \in idx : i <= j]

\* entityStates.get(key): the last operation set under the key
LatestOp(ops, key) ==
    LET idx == {i \in 1..Len(ops) : <<ops[i].entityType, ops[i].entityId>> = key}
    IN ops[CHOOSE i \in idx : \A j \in idx : j <= i]

EmptyDelta == [created |-> <<>>, updated |-> <<>>, deleted |-> <<>>]

EmptyChanges == [prompts |-> EmptyDelta, promptVersions |-> EmptyDelta, groups |-> EmptyDelta]

RECURSIVE ToDelta(_, _, _)
ToDelta(keys, ops, changes) ==
    IF keys = <<>> THEN changes
    ELSE LET op == LatestOp(ops, Head(keys))
             tab == TableOf(op.entityType)
             next == CASE op.operation = "delete" ->
                            [changes EXCEPT ![tab].deleted = Append(@, op.entityId)]
                       [] op.operation = "create" ->
                            [changes EXCEPT ![tab].created = Append(@, op.entity)]
                       [] op.operation = "update" ->
                            [changes EXCEPT ![tab].updated = Append(@, op.entity)]
                       [] OTHER -> changes
         IN ToDelta(Tail(keys), ops, next)

\* a response whose syncId is the syncId of the server's last operation,
\* whatever the request's cursor is
SyncEndpointAtLatest(operations, req, now) ==
    LET lastSyncId == IF "lastSyncId" \in DOMAIN req THEN req.lastSyncId ELSE 0
        limit == IF "limit" \in DOMAIN req THEN req.limit ELSE DefaultLimit
        relevantOps == SelectSeq(operations, LAMBDA op : op.syncId > lastSyncId)
        limitedOps == Slice(relevantOps, limit)
    IN [syncId |-> IF Len(limitedOps) > 0 THEN limitedOps[Len(limitedOps)].syncId
                   ELSE operations[Len(operations)].syncId,
        timestamp |-> now,
        hasMore |-> Len(relevantOps) > limit,
        changes |-> ToDelta(EntityKeys(limitedOps, {}), limitedOps, EmptyChanges)]

\* POST /api/sync: the response body.  req.limit is optional.  relevantOps,
\* limitedOps and the keys of entityStates are bound as the elements of
\* one-element sets, so that TLC computes each of them once.
SyncEndpoint(operations, req, now) ==
    LET lastSyncId == IF "lastSyncId" \in DOMAIN req THEN req.lastSyncId ELSE 0
        limit == IF "limit" \in DOMAIN req THEN req.limit ELSE DefaultLimit
    IN CHOOSE packet \in
           { [syncId |-> IF Len(limitedOps) > 0 THEN limitedOps[Len(limitedOps)].syncId
                         ELSE lastSyncId,
              timestamp |-> now,
              hasMore |-> Len(relevantOps) > limit,
              changes |-> ToDelta(keys, limitedOps, EmptyChanges)] :
             <<relevantOps, limitedOps, keys>> \in
                 { <<r, l, EntityKeys(l, {})>> :
                     <<r, l>> \in
                         { <<r0, Slice(r0, limit)>> :
                             r0 \in { SelectSeq(operations,
                                                LAMBDA op : op.syncId > lastSyncId) } } } } :
           TRUE

-----------------------------------------------------------------------------
(* The database (database.ts) *)

NullTime == 0 - 1       \* lastSyncedAt: null

NoClientId == 0         \* clientId: '' (falsy)

\* a fresh PromptManagerDB
EmptyDB ==
    [prompts |-> EmptyMap, promptVersions |-> EmptyMap, groups |-> EmptyMap,
     pendingMutations |-> EmptyMap, syncMetadata |-> <<>>]

\* orderBy('timestamp'): index order, equal keys in primary-key order
Before(m1, m2) ==
    \/ m1.timestamp < m2.timestamp
    \/ m1.timestamp = m2.timestamp /\ m1.id < m2.id

RECURSIVE SortMutations(_)
SortMutations(ms) ==
    IF ms = {} THEN <<>>
    ELSE LET first == CHOOSE m \in ms : \A o \in ms \ {m} : Before(m, o)
         IN <<first>> \o SortMutations(ms \ {first})

\* getPendingMutations
GetPendingMutations(d) ==
    SortMutations({d.pendingMutations[id] : id \in DOMAIN d.pendingMutations})

\* table.put(record)
DbPut(d, tab, rec) == [d EXCEPT ![tab] = MapSet(@, rec.id, rec)]

\* table.update(id, changes): does nothing when the key is absent
DbUpdate(d, tab, id, changes) ==
    IF id \in DOMAIN d[tab] THEN [d EXCEPT ![tab][id] = Spread(@, changes)] ELSE d

\* table.delete(id)
DbDelete(d, tab, id) ==
    [d EXCEPT ![tab] = [k \in (DOMAIN @) \ {id} |-> @[k]]]

RECURSIVE BulkPut(_, _, _)
BulkPut(d, tab, recs) ==
    IF recs = <<>> THEN d ELSE BulkPut(DbPut(d, tab, Head(recs)), tab, Tail(recs))

\* a hard delete of the listed keys, in place of the soft delete below
RECURSIVE MarkDeletedByRemoval(_, _, _)
MarkDeletedByRemoval(d, tab, ids) ==
    IF ids = <<>> THEN d
    ELSE MarkDeletedByRemoval(DbDelete(d, tab, Head(ids)), tab, Tail(ids))

RECURSIVE MarkDeleted(_, _, _)
MarkDeleted(d, tab, ids) ==
    IF ids = <<>> THEN d
    ELSE MarkDeleted(DbUpdate(d, tab, Head(ids), [isDeleted |-> TRUE]), tab, Tail(ids))

ApplyTable(d, tab, delta) ==
    MarkDeleted(BulkPut(BulkPut(d, tab, delta.created), tab, delta.updated), tab, delta.deleted)

\* applyEntityChanges: prompts, then prompt versions, then groups
ApplyEntityChanges(d, changes) ==
    ApplyTable(ApplyTable(ApplyTable(d, "prompts", changes.prompts),
                          "promptVersions", changes.promptVersions),
               "groups", changes.groups)

\* getSyncMetadata()?.field
HasMetadata(d) == d.syncMetadata # <<>>

\* updateSyncMetadata(data): a put of the whole record; a field missing from
\* data is written as 0, null or a new random clientId (freshId)
UpdateSyncMetadata(d, data, freshId) ==
    [d EXCEPT !.syncMetadata =
        << [id |-> "sync_metadata",
            lastSyncId |-> IF "lastSyncId" \in DOMAIN data THEN data.lastSyncId ELSE 0,
            lastSyncedAt |-> IF "lastSyncedAt" \in DOMAIN data THEN data.lastSyncedAt
                             ELSE NullTime,
            clientId |-> IF "clientId" \in DOMAIN data THEN data.clientId ELSE freshId] >>]

-----------------------------------------------------------------------------
(* The store (store.ts) *)

\* the state created by create<Store>()
InitialStore(isOnline) ==
    [prompts |-> EmptyMap, promptVersions |-> EmptyMap, groups |-> EmptyMap,
     isHydrated |-> FALSE,
     syncState |-> [status |-> "idle", lastSyncedAt |-> NullTime, lastSyncId |-> 0,
                    pendingMutationsCount |-> 0, isOnline |-> isOnline,
                    lastError |-> "null"]]

\* _updateSyncState
UpdateSyncState(st, updates) == [st EXCEPT !.syncState = Spread(@, updates)]

RECURSIVE SetAll(_, _)
SetAll(m, recs) ==
    IF recs = <<>> THEN m ELSE SetAll(MapSet(m, Head(recs).id, Head(recs)), Tail(recs))

RECURSIVE FlagAll(_, _)
FlagAll(m, ids) ==
    IF ids = <<>> THEN m
    ELSE FlagAll(IF Head(ids) \in DOMAIN m
                 THEN MapSet(m, Head(ids), Spread(m[Head(ids)], [isDeleted |-> TRUE]))
                 ELSE m,
                 Tail(ids))

\* an application of a delta that leaves out its updated entities
ApplyDeltaWithoutUpdated(m, delta) == FlagAll(SetAll(m, delta.created), delta.deleted)

ApplyDelta(m, delta) == FlagAll(SetAll(SetAll(m, delta.created), delta.updated), delta.deleted)

\* _applyServerChanges, the set() part
ApplyServerChanges(st, packet) ==
    [st EXCEPT !.prompts = ApplyDelta(@, packet.changes.prompts),
               !.promptVersions = ApplyDelta(@, packet.changes.promptVersions),
               !.groups = ApplyDelta(@, packet.changes.groups),
               !.syncState = Spread(@, [lastSyncId |-> packet.syncId,
                                        lastSyncedAt |-> packet.timestamp])]

\* a persistence part that writes the cursor and drops the entity changes
PersistCursorOnly(d, packet, freshId) ==
    UpdateSyncMetadata(d, [lastSyncId |-> packet.syncId, lastSyncedAt |-> packet.timestamp],
                       freshId)

\* _applyServerChanges, the persistence part
PersistServerChanges(d, packet, freshId) ==
    UpdateSyncMetadata(ApplyEntityChanges(d, packet.changes),
                       [lastSyncId |-> packet.syncId, lastSyncedAt |-> packet.timestamp],
                       freshId)

\* _removePendingMutation, the set() part
RemovePendingCount(st) ==
    [st EXCEPT !.syncState.pendingMutationsCount = Max(0, @ - 1)]

\* every record of a table, deleted or not, as a map
EveryRecordOf(m) == m

\* db.getActivePrompts() and its siblings, as a map
ActiveOf(m) == [id \in {k \in DOMAIN m : ~IsDeleted(m[k])} |-> m[id]]

\* _hydrateFromIndexedDB, the successful path
HydrateFromIndexedDB(d, isOnline) ==
    [prompts |-> ActiveOf(d.prompts),
     promptVersions |-> ActiveOf(d.promptVersions),
     groups |-> ActiveOf(d.groups),
     isHydrated |-> TRUE,
     syncState |-> [status |-> "idle",
                    lastSyncId |-> IF HasMetadata(d) THEN d.syncMetadata[1].lastSyncId ELSE 0,
                    lastSyncedAt |-> IF HasMetadata(d) THEN d.syncMetadata[1].lastSyncedAt
                                     ELSE NullTime,
                    pendingMutationsCount |-> Len(GetPendingMutations(d)),
                    isOnline |-> isOnline,
                    lastError |-> "null"]]

-----------------------------------------------------------------------------
(* The sync engine (engine.ts) *)

ConfiguredClientId == 9 \* a clientId given in the configuration

NoFollowUp == 0         \* the number of setTimeout(() => this.sync(), 100) timers set

\* the fields of a constructed SyncEngine with the default configuration
InitialEngine ==
    [isRunning |-> FALSE, isPushing |-> FALSE, pollTimer |-> FALSE, pushTimer |-> NoTimer,
     followUps |-> NoFollowUp, clientId |-> NoClientId,
     pollTimers |-> 0,      \* setInterval timers set and not cleared
     pushTimers |-> 0]      \* setTimeout timers of schedulePush set, not cleared, not fired

\* the client side of the state, threaded through the calls of one handler
Cur == [store |-> store, db |-> db, engine |-> engine, syncs |-> syncs, pushes |-> pushes]

Commit(C) ==
    /\ store' = C.store
    /\ db' = C.db
    /\ engine' = C.engine
    /\ syncs' = C.syncs
    /\ pushes' = C.pushes

One(x) == SetToBag({x})

\* crypto.randomUUID() for a clientId: a value no live record holds
FreshClientId ==
    LET live == {engine.clientId, hist.firstClientId}
                \cup (IF HasMetadata(db) THEN {db.syncMetadata[1].clientId} ELSE {})
    IN CHOOSE n \in 1..4 : n \notin live /\ \A k \in 1..(n - 1) : k \in live

\* updateStatus
UpdateStatus(C, status) == [C EXCEPT !.store = UpdateSyncState(@, [status |-> status])]

\* sync(), up to the await of fetch
SyncCall(C, isOnline) ==
    IF ~isOnline THEN UpdateStatus(C, "offline")
    ELSE [UpdateStatus(C, "syncing") EXCEPT
            !.syncs = @ (+) One([stage |-> "sent",
                                 request |-> [lastSyncId |-> C.store.syncState.lastSyncId,
                                              limit |-> SyncLimit]])]

\* the latch test at the head of push()
PushBlocked(C, isOnline) == C.engine.isPushing \/ ~isOnline

\* a push() that returns at once
PushCallSkipped(C, isOnline) == C

\* push(), up to the await of db.getPendingMutations(); the read sees the
\* queue as it is when the call is made
PushCall(C, isOnline) ==
    IF PushBlocked(C, isOnline) THEN C
    ELSE [C EXCEPT !.pushes = @ (+) One([stage |-> "reading",
                                         pending |-> GetPendingMutations(C.db)])]

\* schedulePush(delay): clear the pending timeout, set a new one
SchedulePush(C, delay) ==
    [C EXCEPT !.engine.pushTimers = (IF C.engine.pushTimer # NoTimer THEN @ - 1 ELSE @) + 1,
              !.engine.pushTimer = delay]

\* a catch block of push() that sets the status and schedules nothing
CatchPushWithoutRetry(C) == UpdateStatus(C, "error")

\* the catch block of push()
CatchPush(C) == SchedulePush(UpdateStatus(C, "error"), InitialRetryDelay)

\* batch.find((m) => m.id === mutationId)
Find(batch, mutationId) ==
    LET idx == {i \in 1..Len(batch) : batch[i].id = mutationId}
    IN IF idx = {} THEN <<>> ELSE <<batch[CHOOSE i \in idx : \A j \in idx : i <= j]>>

\* a test that gives a mutation up at its first rejection
GivesUpAtOnce(newRetryCount) == newRetryCount >= 1

\* whether handleFailedMutation gives the mutation up
BudgetExhausted(newRetryCount) == newRetryCount >= MaxRetries

\* handleFailedMutation.  X is [db, store, acked, failed].
HandleFailedMutation(X, mutation, error) ==
    LET newRetryCount == mutation.retryCount + 1
    IN IF BudgetExhausted(newRetryCount)
       THEN [X EXCEPT !.db = DbDelete(@, "pendingMutations", mutation.id),
                      !.store = RemovePendingCount(@),
                      !.failed = Append(@, mutation.id)]
       ELSE [X EXCEPT !.db = DbUpdate(@, "pendingMutations", mutation.id,
                                      [retryCount |-> newRetryCount, lastError |-> error])]

\* a loop body that takes a rejected mutation off the queue like an accepted one
ProcessResultDropsRejected(X, r, batch) ==
    [X EXCEPT !.db = DbDelete(@, "pendingMutations", r.mutationId),
              !.store = RemovePendingCount(@),
              !.acked = IF r.success THEN Append(@, r.mutationId) ELSE @]

\* the body of the loop over result.results in push()
ProcessResult(X, r, batch) ==
    IF r.success
    THEN [X EXCEPT !.db = DbDelete(@, "pendingMutations", r.mutationId),
                   !.store = RemovePendingCount(@),
                   !.acked = Append(@, r.mutationId)]
    ELSE LET found == Find(batch, r.mutationId)
         IN IF found # <<>>
            THEN HandleFailedMutation(X, found[1],
                                      IF "error" \in DOMAIN r THEN r.error ELSE "Unknown error")
            ELSE X

RECURSIVE ProcessResults(_, _, _)
ProcessResults(X, results, batch) ==
    IF results = <<>> THEN X
    ELSE ProcessResults(ProcessResult(X, Head(results), batch), Tail(results), batch)

\* what push() does with the cursor of a response
InstallPushCursor(st, result) ==
    IF result.syncId # 0 THEN UpdateSyncState(st, [lastSyncId |-> result.syncId]) ELSE st

-----------------------------------------------------------------------------
(* Selectors (store.ts); the elements of the array that each of them returns *)

\* Array.from(map.values())
Values(m) == {m[k] : k \in DOMAIN m}

\* p.isFavorite, as a condition
IsFavorite(p) == "isFavorite" \in DOMAIN p /\ p.isFavorite

\* a selector that does not filter
selectEveryPrompt(state) == Values(state.prompts)

selectActivePrompts(state) == {p \in Values(state.prompts) : ~IsDeleted(p)}

selectActiveGroups(state) == {g \in Values(state.groups) : ~IsDeleted(g)}

selectFavoritePrompts(state) ==
    {p \in Values(state.prompts) : ~IsDeleted(p) /\ IsFavorite(p)}

selectPromptsByGroup(state, groupId) ==
    {p \in Values(state.prompts) :
        ~IsDeleted(p) /\ "groupId" \in DOMAIN p /\ p.groupId = groupId}

selectPromptVersions(state, promptId) ==
    {v \in Values(state.promptVersions) :
        ~IsDeleted(v) /\ "promptId" \in DOMAIN v /\ v.promptId = promptId}

-----------------------------------------------------------------------------
(* Environment budgets and history *)

\* a budget that is never used up
Unbounded == 0 - 1

Can(kind) == budget[kind] # 0

Spend(kind) ==
    budget' = IF budget[kind] = Unbounded THEN budget ELSE [budget EXCEPT ![kind] = @ - 1]

InitialHistory ==
    [firstClientId |-> NoClientId,  \* the clientId minted by the first init()
     created |-> <<>>,              \* mutation ids in order of creation
     changed |-> {},                \* mutations whose operation changed the view
     sent |-> <<>>,                 \* mutation ids in order of first sending
     acked |-> {},                  \* mutations the client saw succeed
     dropped |-> {},                \* mutations given up after maxRetries
     applied |-> EmptyBag,          \* how often the server wrote each mutation
     delivered |-> {},              \* syncIds covered by applied pull packets
     rejected |-> EmptyBag,         \* how often the server rejected each mutation
     notified |-> EmptyBag,         \* the calls of onMutationFailed, by mutation
     offline |-> {},                \* mutations made while offline, with the cursor then
     syncErrors |-> <<>>,           \* the errors passed to onSyncError, in order
     startsWhileRunning |-> 0]      \* the calls of start() on a running engine

RECURSIVE BagOfSeq(_)
BagOfSeq(s) == IF s = <<>> THEN EmptyBag ELSE One(Head(s)) (+) BagOfSeq(Tail(s))

\* the ids of s that are not in seen, in the order of s
RECURSIVE NewIds(_, _)
NewIds(s, seen) ==
    IF s = <<>> THEN <<>>
    ELSE IF Head(s).id \in seen THEN NewIds(Tail(s), seen)
         ELSE <<Head(s).id>> \o NewIds(Tail(s), seen \cup {Head(s).id})

\* the mutations of a batch for which the server logged an operation
RECURSIVE WrittenBy(_, _, _)
WrittenBy(R, mutations, now) ==
    IF mutations = <<>> THEN EmptyBag
    ELSE LET R2 == ApplyMutation(R, Head(mutations), now)
         IN (IF R2.S.sid > R.S.sid THEN One(Head(mutations).id) ELSE EmptyBag)
            (+) WrittenBy(R2, Tail(mutations), now)

ServerState == [db |-> mockDB, sid |-> currentSyncId]

client == <<store, db, engine, syncs, pushes>>

server == <<mockDB, currentSyncId>>

-----------------------------------------------------------------------------
(* Page life cycle (hooks.ts useSyncEngine) *)

\* await hydrateFromIndexedDB()
Hydrate ==
    /\ phase = "loaded"
    /\ store' = HydrateFromIndexedDB(db, online)
    /\ phase' = "hydrated"
    /\ UNCHANGED <<db, engine, syncs, pushes, online, server, clock, minted, budget, hist>>

\* new SyncEngine(config, events): the configuration is the default one with
\* the given fields over it
Construct(config) == Spread(InitialEngine, config)

\* initSyncEngine(config, events); await engine.init()
EngineInitWith(config) ==
    /\ phase = "hydrated"
    /\ LET known == HasMetadata(db) /\ db.syncMetadata[1].clientId # NoClientId
           id == IF known THEN db.syncMetadata[1].clientId ELSE FreshClientId
       IN /\ engine' = [Construct(config) EXCEPT !.clientId = id]
          /\ db' = IF known THEN db ELSE UpdateSyncMetadata(db, [clientId |-> id], id)
          /\ hist' = IF hist.firstClientId = NoClientId
                     THEN [hist EXCEPT !.firstClientId = id] ELSE hist
    /\ store' = UpdateSyncState(store, [status |-> IF online THEN "idle" ELSE "offline"])
    /\ phase' = "inited"
    /\ UNCHANGED <<syncs, pushes, online, server, clock, minted, budget>>

\* useSyncEngine() without a configuration
EngineInit == EngineInitWith(EmptyMap)

\* useSyncEngine({ clientId }) with a clientId of the application's choice
EngineInitConfigured == EngineInitWith([clientId |-> ConfiguredClientId])

\* a start() without the test of isRunning
StartEngineUnguarded(C, isOnline) ==
    LET C1 == [C EXCEPT !.engine.isRunning = TRUE]
        C2 == SyncCall(C1, isOnline)
        C3 == [C2 EXCEPT !.engine.pollTimer = TRUE, !.engine.pollTimers = @ + 1]
    IN SchedulePush(C3, PollInterval)

\* start(): nothing on a running engine; else the initial sync(), the
\* interval timer and schedulePush()
StartEngine(C, isOnline) ==
    IF C.engine.isRunning THEN C
    ELSE LET C1 == [C EXCEPT !.engine.isRunning = TRUE]
             C2 == SyncCall(C1, isOnline)
             C3 == [C2 EXCEPT !.engine.pollTimer = TRUE, !.engine.pollTimers = @ + 1]
         IN SchedulePush(C3, PollInterval)

\* engine.start()
Start ==
    /\ phase = "inited"
    /\ ~engine.isRunning
    /\ Commit(StartEngine(Cur, online))
    /\ phase' = "started"
    /\ UNCHANGED <<online, server, clock, minted, budget, hist>>

\* engine.start() on an engine that is running
StartRepeated ==
    /\ phase = "started"
    /\ Can("events")
    /\ Spend("events")
    /\ Commit(StartEngine(Cur, online))
    /\ hist' = [hist EXCEPT !.startsWhileRunning = @ + 1]
    /\ UNCHANGED <<phase, online, server, clock, minted>>

\* engine.stop()
Stop ==
    /\ phase = "started"
    /\ Can("events")
    /\ Spend("events")
    /\ engine' = [engine EXCEPT !.isRunning = FALSE,
                                !.pollTimers = IF engine.pollTimer THEN @ - 1 ELSE @,
                                !.pollTimer = FALSE,
                                !.pushTimers = IF engine.pushTimer # NoTimer THEN @ - 1 ELSE @,
                                !.pushTimer = NoTimer]
    /\ phase' = "stopped"
    /\ UNCHANGED <<store, db, syncs, pushes, online, server, clock, minted, hist>>

\* engine.start() on an engine that was stopped
StartAgain ==
    /\ phase = "stopped"
    /\ ~engine.isRunning
    /\ Can("events")
    /\ Spend("events")
    /\ Commit(StartEngine(Cur, online))
    /\ phase' = "started"
    /\ UNCHANGED <<online, server, clock, minted, hist>>

\* the page is reloaded: memory is lost, IndexedDB and the server are not
\* (a reload of a page that is still booting only repeats the boot)
Restart ==
    /\ phase = "started"
    /\ Can("events")
    /\ Spend("events")
    /\ phase' = "loaded"
    /\ store' = InitialStore(online)
    /\ engine' = InitialEngine
    /\ syncs' = EmptyBag
    /\ pushes' = EmptyBag
    /\ UNCHANGED <<db, online, server, clock, minted, hist>>

\* now() is compared only through the timestamps of queued mutations
TimeObserved ==
    \E id \in DOMAIN db.pendingMutations : db.pendingMutations[id].timestamp = clock

\* a millisecond passes (a tick that nothing queued has observed would only
\* shift every later timestamp)
Tick ==
    /\ TimeObserved
    /\ Can("ticks")
    /\ Spend("ticks")
    /\ clock' = clock + 1
    /\ UNCHANGED <<client, phase, online, server, minted, hist>>

-----------------------------------------------------------------------------
(* Connectivity (engine.ts handleOnline, handleOffline) *)

Listening == phase \in {"inited", "started", "stopped"}

\* useSyncEngine calls start() in the continuation of init(): no event handler
\* and no call from the UI runs between the two
Interruptible == phase # "inited"

GoOffline ==
    /\ Interruptible
    /\ online
    /\ Can("events")
    /\ Spend("events")
    /\ online' = FALSE
    /\ IF Listening
       THEN Commit([UpdateStatus(Cur, "offline") EXCEPT
                       !.store = UpdateSyncState(@, [isOnline |-> FALSE])])
       ELSE UNCHANGED client
    /\ UNCHANGED <<phase, server, clock, minted, hist>>

GoOnline ==
    /\ Interruptible
    /\ ~online
    /\ Can("events")
    /\ Spend("events")
    /\ online' = TRUE
    /\ IF Listening
       THEN LET C1 == [UpdateStatus(Cur, "idle") EXCEPT
                          !.store = UpdateSyncState(@, [isOnline |-> TRUE])]
            IN Commit(PushCall(SyncCall(C1, TRUE), TRUE))
       ELSE UNCHANGED client
    /\ UNCHANGED <<phase, server, clock, minted, hist>>

-----------------------------------------------------------------------------
(* Pull (engine.ts sync) *)

\* the setInterval callback of start()
PollTick ==
    /\ engine.pollTimer
    /\ budget.inflight = Unbounded \/ BagCardinality(syncs) < budget.inflight
    /\ Can("events")
    /\ Spend("events")
    /\ IF online THEN Commit(SyncCall(Cur, online)) ELSE UNCHANGED client
    /\ UNCHANGED <<phase, online, server, clock, minted, hist>>

ForceSync ==
    /\ Listening /\ Interruptible
    /\ Can("events")
    /\ Spend("events")
    /\ Commit(SyncCall(Cur, online))
    /\ UNCHANGED <<phase, online, server, clock, minted, hist>>

\* the server answers POST /api/sync
ServerSync ==
    \E s \in BagToSet(syncs) :
        /\ s.stage = "sent"
        /\ syncs' = (syncs (-) One(s)) (+)
                    One([stage |-> "replied", request |-> s.request,
                         packet |-> SyncEndpoint(mockDB.operations, s.request, clock)])
        /\ UNCHANGED <<store, db, engine, pushes, phase, online, server, clock, minted,
                       budget, hist>>

\* a continuation that applies the packet and never asks for the next page
SyncResponseWithoutFollowUp ==
    \E s \in BagToSet(syncs) :
        /\ s.stage = "replied"
        /\ store' = UpdateSyncState(ApplyServerChanges(store, s.packet), [status |-> "idle"])
        /\ db' = PersistServerChanges(db, s.packet, FreshClientId)
        /\ syncs' = syncs (-) One(s)
        /\ hist' = [hist EXCEPT !.delivered =
                       @ \cup ((s.request.lastSyncId + 1) .. s.packet.syncId)]
        /\ UNCHANGED <<engine, pushes, phase, online, server, clock, minted, budget>>

\* sync() after the fetch resolved with an ok response
SyncResponse ==
    \E s \in BagToSet(syncs) :
        /\ s.stage = "replied"
        /\ store' = UpdateSyncState(ApplyServerChanges(store, s.packet), [status |-> "idle"])
        /\ db' = PersistServerChanges(db, s.packet, FreshClientId)
        /\ syncs' = syncs (-) One(s)
        /\ engine' = IF s.packet.hasMore THEN [engine EXCEPT !.followUps = @ + 1] ELSE engine
        /\ hist' = [hist EXCEPT !.delivered =
                       @ \cup ((s.request.lastSyncId + 1) .. s.packet.syncId)]
        /\ UNCHANGED <<pushes, phase, online, server, clock, minted, budget>>

\* The same continuation of sync() with its two writes to IndexedDB told
\* apart.  _applyServerChanges calls db.applyEntityChanges and
\* db.updateSyncMetadata without awaiting either: the first is a transaction
\* on the three entity tables, the second a put on the metadata table, and
\* IndexedDB may commit transactions on different tables in either order.  The
\* call stays in syncs, at the stage "persisting", until both have committed.
SyncResponseUnpersisted ==
    \E s \in BagToSet(syncs) :
        /\ s.stage = "replied"
        /\ store' = UpdateSyncState(ApplyServerChanges(store, s.packet), [status |-> "idle"])
        /\ syncs' = (syncs (-) One(s)) (+)
                    One([stage |-> "persisting", packet |-> s.packet,
                         left |-> {"entities", "metadata"}])
        /\ engine' = IF s.packet.hasMore THEN [engine EXCEPT !.followUps = @ + 1] ELSE engine
        /\ hist' = [hist EXCEPT !.delivered =
                       @ \cup ((s.request.lastSyncId + 1) .. s.packet.syncId)]
        /\ UNCHANGED <<db, pushes, phase, online, server, clock, minted, budget>>

\* one of the two writes of a call commits
Commits(s, write) ==
    /\ s.stage = "persisting" /\ write \in s.left
    /\ syncs' = (syncs (-) One(s)) (+)
                 (IF s.left = {write} THEN EmptyBag ELSE One([s EXCEPT !.left = @ \ {write}]))
    /\ UNCHANGED <<store, engine, pushes, phase, online, server, clock, minted, budget, hist>>

\* the transaction of db.applyEntityChanges commits
EntitiesCommit ==
    \E s \in BagToSet(syncs) :
        /\ Commits(s, "entities")
        /\ db' = ApplyEntityChanges(db, s.packet.changes)

\* the put of db.updateSyncMetadata commits
MetadataCommits ==
    \E s \in BagToSet(syncs) :
        /\ Commits(s, "metadata")
        /\ db' = UpdateSyncMetadata(db, [lastSyncId |-> s.packet.syncId,
                                         lastSyncedAt |-> s.packet.timestamp],
                                    FreshClientId)

\* the callback of setTimeout(() => this.sync(), 100)
FollowUpFires ==
    /\ engine.followUps > NoFollowUp
    /\ Commit(SyncCall([Cur EXCEPT !.engine.followUps = @ - 1], online))
    /\ UNCHANGED <<phase, online, server, clock, minted, budget, hist>>

\* the ways a pull fails: fetch rejects, or the response is not ok
SyncFaults == {"rejected", "not ok"}

\* the message of the error that the catch block of sync() receives
SyncErrorMessage(fault) ==
    IF fault = "rejected" THEN "Network error"
    ELSE "Sync failed: 500 Internal Server Error"

\* a catch block that sets the status and leaves lastError as it is
CatchSyncWithoutMessage(st, message) == UpdateSyncState(st, [status |-> "error"])

\* the catch block of sync(): updateStatus('error'), then lastError
CatchSync(st, message) ==
    UpdateSyncState(UpdateSyncState(st, [status |-> "error"]), [lastError |-> message])

\* sync() when the pull s fails: the catch block, with its call of onSyncError
SyncFailsWith(s, fault) ==
    /\ s \in BagToSet(syncs)
    /\ fault = "not ok" => s.stage = "sent"
    /\ Can("events")
    /\ Spend("events")
    /\ store' = CatchSync(store, SyncErrorMessage(fault))
    /\ syncs' = syncs (-) One(s)
    /\ hist' = [hist EXCEPT !.syncErrors = Append(@, SyncErrorMessage(fault))]
    /\ UNCHANGED <<db, engine, pushes, phase, online, server, clock, minted>>

SyncFails == \E s \in BagToSet(syncs), fault \in SyncFaults : SyncFailsWith(s, fault)

-----------------------------------------------------------------------------
(* Push (engine.ts push) *)

\* the setTimeout callback of schedulePush
PushTimerFires ==
    /\ engine.pushTimer # NoTimer
    /\ LET C1 == [Cur EXCEPT !.engine.pushTimer = NoTimer, !.engine.pushTimers = @ - 1]
       IN Commit(IF C1.engine.isRunning /\ online THEN PushCall(C1, online) ELSE C1)
    /\ UNCHANGED <<phase, online, server, clock, minted, budget, hist>>

ForcePush ==
    /\ Listening /\ Interruptible
    /\ Can("events")
    /\ Spend("events")
    /\ Commit(PushCall(Cur, online))
    /\ UNCHANGED <<phase, online, server, clock, minted, hist>>

\* push() after getPendingMutations() resolved: return on an empty queue,
\* else set the latch and post the first BatchSize mutations
PushRead ==
    \E p \in BagToSet(pushes) :
        /\ p.stage = "reading"
        /\ IF p.pending = <<>>
           THEN /\ pushes' = pushes (-) One(p)
                /\ UNCHANGED <<store, engine, hist>>
           ELSE LET batch == Slice(p.pending, BatchSize)
                IN /\ engine' = [engine EXCEPT !.isPushing = TRUE]
                   /\ store' = UpdateSyncState(store, [status |-> "pushing"])
                   /\ pushes' = (pushes (-) One(p)) (+)
                                One([stage |-> "sent",
                                     request |-> [clientId |-> engine.clientId,
                                                  mutations |-> batch]])
                   /\ hist' = [hist EXCEPT !.sent = @ \o NewIds(batch, SeqToSet(@))]
        /\ UNCHANGED <<db, syncs, phase, online, server, clock, minted, budget>>

\* the server answers POST /api/mutations
ServerMutations ==
    \E p \in BagToSet(pushes) :
        /\ p.stage = "sent"
        /\ LET out == MutationsEndpoint(ServerState, p.request.mutations, clock)
           IN /\ mockDB' = out.S.db
              /\ currentSyncId' = out.S.sid
              /\ pushes' = (pushes (-) One(p)) (+)
                           One([stage |-> "replied", request |-> p.request,
                                response |-> out.response])
        /\ LET out == MutationsEndpoint(ServerState, p.request.mutations, clock)
               no == SelectSeq(out.response.results, LAMBDA r : ~r.success)
           IN hist' = [hist EXCEPT
                         !.applied = @ (+) WrittenBy([S |-> ServerState, results |-> <<>>,
                                                      newSyncId |-> currentSyncId],
                                                     p.request.mutations, clock),
                         !.rejected = @ (+) BagOfSeq([i \in 1..Len(no) |-> no[i].mutationId])]
        /\ UNCHANGED <<store, db, engine, syncs, phase, online, clock, minted, budget>>

\* push() after the fetch resolved with an ok response, through finally
PushResponse ==
    \E p \in BagToSet(pushes) :
        /\ p.stage = "replied"
        /\ LET X == ProcessResults([db |-> db, store |-> store, acked |-> <<>>,
                                    failed |-> <<>>],
                                   p.response.results, p.request.mutations)
               st == InstallPushCursor(UpdateSyncState(X.store, [status |-> "idle"]),
                                       p.response)
               remaining == GetPendingMutations(X.db)
           IN /\ db' = X.db
              /\ store' = st
              /\ engine' = LET C1 == [Cur EXCEPT !.engine.isPushing = FALSE]
                           IN IF Len(remaining) > 0 THEN SchedulePush(C1, DrainDelay).engine
                              ELSE C1.engine
              /\ hist' = [hist EXCEPT !.acked = @ \cup SeqToSet(X.acked),
                                      !.dropped = @ \cup SeqToSet(X.failed),
                                      !.notified = @ (+) BagOfSeq(X.failed)]
        /\ pushes' = pushes (-) One(p)
        /\ UNCHANGED <<syncs, phase, online, server, clock, minted, budget>>

\* push() when the fetch rejects, before or after the server handled the
\* request: catch (the queue is left as it is), then finally
PushFails ==
    \E p \in BagToSet(pushes) :
        /\ p.stage \in {"sent", "replied"}
        /\ Can("events")
        /\ Spend("events")
        /\ LET C1 == CatchPush([Cur EXCEPT !.pushes = @ (-) One(p)])
           IN Commit([C1 EXCEPT !.engine.isPushing = FALSE])
        /\ UNCHANGED <<phase, online, server, clock, minted, hist>>

-----------------------------------------------------------------------------
(* Local mutations (store.ts) *)

\* uuid() for a mutation: any id not drawn before
FreshMutationIds ==
    (1 .. (Len(hist.created) + budget.localOps)) \ SeqToSet(hist.created)

\* a queueMutation that stores the mutation and leaves the count alone
QueueMutationUncounted(d, st, mid, operation, entityType, entityId, payload) ==
    /\ db' = DbPut(d, "pendingMutations",
                   [id |-> mid, operation |-> operation, entityType |-> entityType,
                    entityId |-> entityId, payload |-> payload, timestamp |-> clock,
                    retryCount |-> 0])
    /\ store' = st

\* queueMutation
QueueMutation(d, st, mid, operation, entityType, entityId, payload) ==
    LET mutation == [id |-> mid, operation |-> operation, entityType |-> entityType,
                     entityId |-> entityId, payload |-> payload, timestamp |-> clock,
                     retryCount |-> 0]
    IN /\ db' = DbPut(d, "pendingMutations", mutation)
       /\ store' = UpdateSyncState(st, [pendingMutationsCount |->
                                           st.syncState.pendingMutationsCount + 1])

Record(mid, changedView) ==
    hist' = [hist EXCEPT !.created = Append(@, mid),
                         !.changed = IF changedView THEN @ \cup {mid} ELSE @,
                         !.offline = IF online THEN @
                                     ELSE @ \cup {[id |-> mid,
                                                   cursor |-> store.syncState.lastSyncId]}]

\* createPrompt, createPromptVersion, createGroup
CreateEntity(entityType, data) ==
    /\ store.isHydrated /\ Interruptible
    /\ Can("localOps")
    /\ Spend("localOps")
    /\ \E mid \in FreshMutationIds :
        LET tab == TableOf(entityType)
            entity == Spread(data, [id |-> Uuid(minted + 1), type |-> entityType,
                                    createdAt |-> clock, updatedAt |-> clock,
                                    isDeleted |-> FALSE])
        IN /\ QueueMutation(DbPut(db, tab, entity),
                            [store EXCEPT ![tab] = MapSet(@, entity.id, entity)],
                            mid, "create", entityType, entity.id, entity)
           /\ Record(mid, TRUE)
    /\ minted' = minted + 1
    /\ UNCHANGED <<engine, syncs, pushes, phase, online, server, clock>>

\* updatePrompt, updateGroup
UpdateEntity(entityType, id, updates) ==
    /\ store.isHydrated /\ Interruptible
    /\ Can("localOps")
    /\ Spend("localOps")
    /\ LET tab == TableOf(entityType)
       IN IF id \notin DOMAIN store[tab]
          THEN UNCHANGED <<store, db, hist>>
          ELSE \E mid \in FreshMutationIds :
                LET updated == Spread(Spread(store[tab][id], updates), [updatedAt |-> clock])
                IN /\ QueueMutation(DbPut(db, tab, updated),
                                    [store EXCEPT ![tab] = MapSet(@, id, updated)],
                                    mid, "update", entityType, id, updates)
                   /\ Record(mid, TRUE)
    /\ UNCHANGED <<engine, syncs, pushes, phase, online, server, clock, minted>>

\* deletePrompt, deleteGroup
DeleteEntity(entityType, id) ==
    /\ store.isHydrated /\ Interruptible
    /\ Can("localOps")
    /\ Spend("localOps")
    /\ \E mid \in FreshMutationIds :
        LET tab == TableOf(entityType)
            existing == id \in DOMAIN store[tab]
            flagged == [isDeleted |-> TRUE, updatedAt |-> clock]
        IN /\ QueueMutation(DbUpdate(db, tab, id, flagged),
                            IF existing
                            THEN [store EXCEPT ![tab] = MapSet(@, id, Spread(@[id], flagged))]
                            ELSE store,
                            mid, "delete", entityType, id, Null)
           /\ Record(mid, existing)
    /\ UNCHANGED <<engine, syncs, pushes, phase, online, server, clock, minted>>

\* the inputs of the operations
PromptData == {[title |-> "T", isFavorite |-> FALSE]}

GroupData == {[name |-> "G", color |-> "red"]}

VersionData == {[promptId |-> "prompt-1", content |-> "C"]}

PromptUpdates == {[title |-> "T2"]}

GroupUpdates == {[name |-> "G2"]}

PromptTargets == {"prompt-1", Uuid(1)}

GroupTargets == {"group-1"}

CreatePrompt == \E data \in PromptData : CreateEntity("prompt", data)

UpdatePrompt == \E id \in PromptTargets, u \in PromptUpdates : UpdateEntity("prompt", id, u)

DeletePrompt == \E id \in PromptTargets : DeleteEntity("prompt", id)

CreatePromptVersion == \E data \in VersionData : CreateEntity("prompt_version", data)

CreateGroup == \E data \in GroupData : CreateEntity("group", data)

UpdateGroup == \E id \in GroupTargets, u \in GroupUpdates : UpdateEntity("group", id, u)

DeleteGroup == \E id \in GroupTargets : DeleteEntity("group", id)

-----------------------------------------------------------------------------
(* Another client of the same server *)

RemoteMutations ==
    { [id |-> 0, operation |-> "update", entityType |-> "prompt", entityId |-> "prompt-1",
       payload |-> [title |-> "R"], timestamp |-> clock, retryCount |-> 0],
      [id |-> 0, operation |-> "delete", entityType |-> "prompt", entityId |-> "prompt-2",
       payload |-> Null, timestamp |-> clock, retryCount |-> 0] }

\* the server is observed only when it answers a request
ServerObserved ==
    \/ \E s \in BagToSet(syncs) : s.stage = "sent"
    \/ \E p \in BagToSet(pushes) : p.stage = "sent"

\* another client's POST /api/mutations (taken only while a request of this
\* client is on its way: a write nobody is about to observe commutes with
\* every step of the client)
RemoteWrite ==
    /\ ServerObserved
    /\ Can("events")
    /\ Spend("events")
    /\ \E m \in RemoteMutations :
        LET out == MutationsEndpoint(ServerState, <<m>>, clock)
        IN /\ mockDB' = out.S.db
           /\ currentSyncId' = out.S.sid
    /\ UNCHANGED <<client, phase, online, clock, minted, hist>>

\* enough operations to leave more than one page for a client at cursor 0
BulkSize == SyncLimit + 1 - SeedMockData.sid

\* another client's POST /api/mutations with BulkSize edits in one request
BulkMutations ==
    [i \in 1..BulkSize |->
        [id |-> 0, operation |-> "update", entityType |-> "prompt", entityId |-> "prompt-1",
         payload |-> [title |-> "R"], timestamp |-> clock, retryCount |-> 0]]

RemoteBulkWrite ==
    /\ ServerObserved
    /\ currentSyncId = SeedMockData.sid
    /\ Can("events")
    /\ Spend("events")
    /\ LET out == MutationsEndpoint(ServerState, BulkMutations, clock)
       IN /\ mockDB' = out.S.db
          /\ currentSyncId' = out.S.sid
    /\ UNCHANGED <<client, phase, online, clock, minted, hist>>

\* the server process is started again between two requests: its memory is
\* seeded anew, the client's IndexedDB is not touched
ServerRestart ==
    /\ syncs = EmptyBag /\ pushes = EmptyBag
    /\ currentSyncId # SeedMockData.sid
    /\ Can("events")
    /\ Spend("events")
    /\ mockDB' = SeedMockData.db
    /\ currentSyncId' = SeedMockData.sid
    /\ UNCHANGED <<client, phase, online, clock, minted, hist>>

\* the mutations that a client of the HTTP interface posts: edits of seeded
\* and of new entities, an update of an entity the server does not hold, and a
\* mutation of an entity kind the server does not know
ApiMutations ==
    { [id |-> 1, operation |-> "update", entityType |-> "prompt", entityId |-> "prompt-1",
       payload |-> [title |-> "R"], timestamp |-> clock, retryCount |-> 0],
      [id |-> 2, operation |-> "delete", entityType |-> "prompt", entityId |-> "prompt-2",
       payload |-> Null, timestamp |-> clock, retryCount |-> 0],
      [id |-> 3, operation |-> "create", entityType |-> "prompt", entityId |-> "prompt-9",
       payload |-> [title |-> "N"], timestamp |-> clock, retryCount |-> 0],
      [id |-> 4, operation |-> "update", entityType |-> "prompt", entityId |-> "prompt-9",
       payload |-> [title |-> "M"], timestamp |-> clock, retryCount |-> 0],
      [id |-> 5, operation |-> "create", entityType |-> "tag", entityId |-> "tag-1",
       payload |-> [name |-> "T"], timestamp |-> clock, retryCount |-> 0] }

\* the request bodies of POST /api/mutations: up to MaxBatch mutations
ApiBatches ==
    UNION { [1..n -> ApiMutations] : n \in 1..MaxBatch }

\* POST /api/mutations with the body { clientId, mutations: batch }; pushes
\* holds the exchange that was answered last
PostMutations(batch) ==
    /\ Can("events")
    /\ Spend("events")
    /\ LET out == MutationsEndpoint(ServerState, batch, clock)
       IN /\ mockDB' = out.S.db
          /\ currentSyncId' = out.S.sid
          /\ pushes' = One([stage |-> "answered", batch |-> batch, response |-> out.response])
    /\ UNCHANGED <<store, db, engine, syncs, phase, online, clock, minted, hist>>

ApiWrite == \E batch \in ApiBatches : PostMutations(batch)

\* the request bodies of POST /api/sync: a cursor up to one past the server's
\* counter, or none, and a limit from 0 to MaxLimit, or none
ApiRequests ==
    LET cursors == { [lastSyncId |-> c] : c \in 0..(currentSyncId + 1) } \cup { EmptyMap }
        limits == { [limit |-> n] : n \in 0..MaxLimit } \cup { EmptyMap }
    IN { Spread(c, l) : c \in cursors, l \in limits }

\* POST /api/sync with the body req; syncs holds the exchange that was
\* answered last
PostSync(req) ==
    /\ phase = "loaded"
    /\ syncs' = One([stage |-> "answered", request |-> req,
                     packet |-> SyncEndpoint(mockDB.operations, req, clock)])
    /\ UNCHANGED <<store, db, engine, pushes, phase, online, server, clock, minted,
                   budget, hist>>

ApiRead == \E req \in ApiRequests : PostSync(req)

\* what a client holds after a packet: for each entity of the packet, its
\* record, or the mark that it was deleted
Deleted == [deleted |-> TRUE]

Receive(received, changes) ==
    LET ids(tab) == {changes[tab].created[i].id : i \in DOMAIN changes[tab].created}
                    \cup {changes[tab].updated[i].id : i \in DOMAIN changes[tab].updated}
                    \cup SeqToSet(changes[tab].deleted)
        sent(tab) == SeqToSet(changes[tab].created) \cup SeqToSet(changes[tab].updated)
        keys == UNION { {<<tab, id>> : id \in ids(tab)} : tab \in Tables }
        news == [k \in keys |->
                    IF k[2] \in SeqToSet(changes[k[1]].deleted) THEN Deleted
                    ELSE CHOOSE e \in sent(k[1]) : e.id = k[2]]
    IN news @@ received

\* a client that requests with the cursor of the previous response until a
\* response has hasMore false
RECURSIVE PageThrough(_, _, _, _)
PageThrough(operations, cursor, limit, received) ==
    LET packet == SyncEndpoint(operations, [lastSyncId |-> cursor, limit |-> limit], clock)
        got == Receive(received, packet.changes)
    IN IF packet.hasMore THEN PageThrough(operations, packet.syncId, limit, got)
       ELSE [cursor |-> packet.syncId, received |-> got]

\* a run of requests to POST /api/sync from the cursor c with a positive limit;
\* syncs holds the run that ended last
ApiPage ==
    /\ phase = "loaded"
    /\ \E c \in 0..currentSyncId, limit \in 1..MaxLimit :
          syncs' = One([stage |-> "paged", request |-> [lastSyncId |-> c, limit |-> limit],
                        result |-> PageThrough(mockDB.operations, c, limit, EmptyMap)])
    /\ UNCHANGED <<store, db, engine, pushes, phase, online, server, clock, minted,
                   budget, hist>>

-----------------------------------------------------------------------------
(* Specification *)

MainBudget ==
    [localOps |-> MaxLocalOps, events |-> MaxEvents, ticks |-> MaxClock,
     inflight |-> Unbounded]

InitWith(b) ==
    /\ store = InitialStore(TRUE)
    /\ db = EmptyDB
    /\ engine = InitialEngine
    /\ phase = "loaded"
    /\ syncs = EmptyBag
    /\ pushes = EmptyBag
    /\ online = TRUE
    /\ mockDB = SeedMockData.db
    /\ currentSyncId = SeedMockData.sid
    /\ clock = 1
    /\ minted = 0
    /\ budget = b
    /\ hist = InitialHistory

Init == InitWith(MainBudget)

Next ==
    \/ Hydrate \/ EngineInit \/ Start \/ Restart \/ Tick
    \/ GoOffline \/ GoOnline
    \/ PollTick \/ ForceSync \/ ServerSync \/ SyncResponse \/ SyncFails
    \/ PushTimerFires \/ ForcePush \/ PushRead \/ ServerMutations \/ PushResponse \/ PushFails
    \/ CreatePrompt \/ UpdatePrompt \/ DeletePrompt \/ CreatePromptVersion
    \/ CreateGroup \/ UpdateGroup \/ DeleteGroup
    \/ RemoteWrite

Spec == Init /\ [][Next]_vars

(* The queue under two local mutations: the prompt operations, the boot pull, *)
(* pushes by timer and by forcePush, a rejected fetch, a reload               *)

QueueBudget ==
    [localOps |-> QueueOps, events |-> QueueEvents, ticks |-> MaxClock,
     inflight |-> Unbounded]

QueueInit == InitWith(QueueBudget)

QueueNext ==
    \/ Hydrate \/ EngineInit \/ Start \/ Restart \/ Tick
    \/ ServerSync \/ SyncResponse
    \/ PushTimerFires \/ ForcePush \/ PushRead \/ ServerMutations \/ PushResponse \/ PushFails
    \/ CreatePrompt \/ UpdatePrompt \/ DeletePrompt

QueueSpec == QueueInit /\ [][QueueNext]_vars

(* A mutation that the server keeps rejecting: a prompt is created and pushed, *)
(* the server loses it in a restart, and an update of it is pushed by the     *)
(* timer and by forcePush                                                     *)

RetryBudget ==
    [localOps |-> RetryOps, events |-> RetryEvents, ticks |-> 0, inflight |-> Unbounded]

RetryInit == InitWith(RetryBudget)

RetryNext ==
    \/ Hydrate \/ EngineInit \/ Start
    \/ ServerSync \/ SyncResponse
    \/ PushTimerFires \/ ForcePush \/ PushRead \/ ServerMutations \/ PushResponse
    \/ CreatePrompt \/ UpdatePrompt
    \/ ServerRestart

RetrySpec == RetryInit /\ [][RetryNext]_vars

(* The engine stopped and started again while requests are in flight, with a  *)
(* server that holds more operations than one pull returns                    *)

StopBudget ==
    [localOps |-> StopOps, events |-> StopEvents, ticks |-> 0, inflight |-> Unbounded]

StopInit == InitWith(StopBudget)

StopNext ==
    \/ Hydrate \/ EngineInit \/ Start \/ Stop \/ StartAgain \/ StartRepeated
    \/ PollTick \/ ServerSync \/ SyncResponse \/ FollowUpFires
    \/ PushTimerFires \/ PushRead \/ ServerMutations \/ PushResponse
    \/ CreatePrompt
    \/ RemoteBulkWrite

StopSpec == StopInit /\ [][StopNext]_vars

(* An engine that is given a clientId in its configuration                     *)

ConfigBudget ==
    [localOps |-> ConfigOps, events |-> ConfigEvents, ticks |-> 0, inflight |-> Unbounded]

ConfigInit == InitWith(ConfigBudget)

ConfigNext ==
    \/ Hydrate \/ EngineInitConfigured \/ Start \/ Restart
    \/ ServerSync \/ SyncResponse
    \/ PushTimerFires \/ PushRead \/ ServerMutations \/ PushResponse
    \/ CreatePrompt

ConfigSpec == ConfigInit /\ [][ConfigNext]_vars

(* A connection that is lost and comes back while prompts are created: every  *)
(* fetch resolves, and every step of the engine, the network and the server   *)
(* that can be taken is eventually taken                                      *)

RoundBudget ==
    [localOps |-> RoundOps, events |-> RoundEvents, ticks |-> 0, inflight |-> Unbounded]

RoundInit == InitWith(RoundBudget)

RoundNext ==
    \/ Hydrate \/ EngineInit \/ Start
    \/ GoOffline \/ GoOnline
    \/ ServerSync \/ SyncResponse
    \/ PushTimerFires \/ PushRead \/ ServerMutations \/ PushResponse
    \/ CreatePrompt

RoundSpec ==
    /\ RoundInit
    /\ [][RoundNext]_vars
    /\ WF_vars(Hydrate) /\ WF_vars(EngineInit) /\ WF_vars(Start)
    /\ WF_vars(ServerSync) /\ WF_vars(SyncResponse)
    /\ WF_vars(PushTimerFires) /\ WF_vars(PushRead)
    /\ WF_vars(ServerMutations) /\ WF_vars(PushResponse)

(* The engine left to its timers: connectivity stays up, every fetch resolves, *)
(* the poll timer keeps firing, and every step of the engine, the network and *)
(* the server that can be taken is eventually taken                           *)

LiveBudget ==
    [localOps |-> LiveOps, events |-> Unbounded, ticks |-> 0, inflight |-> LivePulls]

LiveInit == InitWith(LiveBudget)

EngineStep ==
    \/ Hydrate \/ EngineInit \/ Start
    \/ PollTick \/ ServerSync \/ SyncResponse
    \/ PushTimerFires \/ PushRead \/ ServerMutations \/ PushResponse

LiveNext == EngineStep \/ CreatePrompt \/ UpdatePrompt

FairSpec ==
    /\ LiveInit
    /\ [][LiveNext]_vars
    /\ WF_vars(Hydrate) /\ WF_vars(EngineInit) /\ WF_vars(Start)
    /\ WF_vars(PollTick) /\ WF_vars(ServerSync) /\ WF_vars(SyncResponse)
    /\ WF_vars(PushTimerFires) /\ WF_vars(PushRead)
    /\ WF_vars(ServerMutations) /\ WF_vars(PushResponse)

(* The HTTP interface of the server, used by a client that posts requests of  *)
(* its own choice: the page of the application is never booted                *)

ApiBudget ==
    [localOps |-> 0, events |-> ApiWrites, ticks |-> 0, inflight |-> Unbounded]

ApiInit == InitWith(ApiBudget)

ApiNext == ApiWrite \/ ApiRead

ApiSpec == ApiInit /\ [][ApiNext]_vars

(* The same interface, used by a client that pages through the operations     *)

PageInit == InitWith(ApiBudget)

PageNext == ApiWrite \/ ApiPage

PageSpec == PageInit /\ [][PageNext]_vars

(* The writes of a pull to IndexedDB one by one, with reloads of the page and  *)
(* writes of another client; the client makes no mutation of its own, and a   *)
(* poll tick comes only when the pull before it has been answered and written *)

DurableBudget ==
    [localOps |-> 0, events |-> DurableEvents, ticks |-> 0, inflight |-> 1]

DurableInit == InitWith(DurableBudget)

DurableNext ==
    \/ Hydrate \/ EngineInit \/ Start \/ Restart
    \/ PollTick \/ ServerSync \/ SyncResponseUnpersisted
    \/ EntitiesCommit \/ MetadataCommits
    \/ RemoteWrite

DurableSpec == DurableInit /\ [][DurableNext]_vars

(* A first pull that meets more operations than one response holds: the      *)
(* other client writes while the first request is on its way and not again,   *)
(* connectivity stays up, every fetch resolves, every timer fires; the page   *)
(* may be reloaded and prompts may be created meanwhile                        *)

ChainBudget ==
    [localOps |-> ChainOps, events |-> ChainEvents, ticks |-> 0, inflight |-> Unbounded]

ChainInit == InitWith(ChainBudget)

ChainNext ==
    \/ Hydrate \/ EngineInit \/ Start \/ Restart
    \/ ServerSync \/ SyncResponse \/ FollowUpFires
    \/ CreatePrompt
    \/ RemoteBulkWrite

ChainSpec ==
    /\ ChainInit
    /\ [][ChainNext]_vars
    /\ WF_vars(Hydrate) /\ WF_vars(EngineInit) /\ WF_vars(Start)
    /\ WF_vars(ServerSync) /\ WF_vars(SyncResponse) /\ WF_vars(FollowUpFires)

-----------------------------------------------------------------------------
(* Properties *)

Cursor == store.syncState.lastSyncId

Queue == DOMAIN db.pendingMutations

Sent == SeqToSet(hist.sent)

\* the position of x in s
Pos(s, x) == CHOOSE i \in 1..Len(s) : s[i] = x

\* the calls of a bag whose request has been posted and not yet answered to
\* the caller
Posted(b) == [x \in {y \in BagToSet(b) : y.stage # "reading"} |-> CopiesIn(x, b)]

\* C1: the view's cursor never goes down: no pull completion, push completion
\* or local mutation lowers syncState.lastSyncId (a reload, which empties the
\* view until it is hydrated again, is not one of these steps).
CursorNeverLowered ==
    [][phase' = phase => store'.syncState.lastSyncId >= store.syncState.lastSyncId]_vars

\* C2: a local mutation that changed the view stays in the durable queue until
\* the client has seen the server accept it or has given it up after
\* maxRetries rejections; a rejected fetch, a rejection below the budget, a
\* pull and a reload all leave it there.
QueuedUntilSettled ==
    \A mid \in hist.changed : mid \in Queue \/ mid \in hist.acked \cup hist.dropped

\* a mutation that changed the view was posted, the fetch was rejected, and
\* the mutation is still queued and unacknowledged with no push in progress
QueuedAfterFailedPush ==
    /\ store.syncState.status = "error"
    /\ pushes = EmptyBag
    /\ \E mid \in hist.changed : mid \in Sent /\ mid \in Queue /\ mid \notin hist.acked

\* the view holds, for every entity of the server, a record with the server's
\* values in every field the client writes (the server's stamps syncId and
\* updatedAt are not compared)
SameFields(v, s) ==
    \A f \in (DOMAIN s) \ {"syncId", "updatedAt"} : f \in DOMAIN v /\ v[f] = s[f]

ViewMatchesServer ==
    \A tab \in Tables : \A id \in DOMAIN mockDB[tab] :
        id \in DOMAIN store[tab] /\ SameFields(store[tab][id], mockDB[tab][id])

\* C3: once the local mutations have stopped, with the engine running, the
\* connection up and no other writer, the queue eventually is empty and the
\* view shows the server's records.
EventuallyConsistent ==
    (budget.localOps = 0 /\ phase = "started" /\ online)
        ~> (Queue = {} /\ ViewMatchesServer)

\* C4: every server write up to the view's cursor was covered by a pull packet
\* that the client applied.
CursorWithinDelivered == \A n \in 1..Cursor : n \in hist.delivered

\* C5: with the engine running and the connection up, every queued mutation is
\* eventually posted to the mutations endpoint by the engine's own timers.
QueuedEventuallySent ==
    \A mid \in 1..LiveOps : (phase = "started" /\ online /\ mid \in Queue) ~> (mid \in Sent)

\* C6: when no call of the engine is in progress, the pendingMutationsCount of
\* a hydrated view is the number of records in the durable queue.
CountMatchesQueue ==
    (store.isHydrated /\ syncs = EmptyBag /\ pushes = EmptyBag)
        => store.syncState.pendingMutationsCount = Cardinality(Queue)

\* C7: a push carries at most BatchSize mutations, and when a mutation is
\* first sent every mutation created before it has been sent before it.
FifoDrain ==
    /\ \A p \in DOMAIN Posted(pushes) : Len(p.request.mutations) <= BatchSize
    /\ \A j \in 1..Len(hist.sent) : \A i \in 1..Len(hist.created) :
           i < Pos(hist.created, hist.sent[j])
               => \E k \in 1..(j - 1) : hist.sent[k] = hist.created[i]

\* C8: the server writes each mutation id at most once.
AppliedAtMostOnce == \A mid \in BagToSet(hist.applied) : CopiesIn(mid, hist.applied) <= 1

\* C9: at most one POST /api/mutations is in flight.
OnePushInFlight == BagCardinality(Posted(pushes)) <= 1

\* C10: at most one POST /api/sync is in flight.
OnePullInFlight == BagCardinality(Posted(syncs)) <= 1

Count == store.syncState.pendingMutationsCount

\* the mutation ids that a response reports with success (ok) or with failure
ReportedBy(p, ok) ==
    {p.response.results[i].mutationId :
        i \in {j \in 1..Len(p.response.results) : p.response.results[j].success = ok}}

\* this step is push() handling the response of p
Handles(p) == p.stage = "replied" /\ PushResponse /\ pushes' = pushes (-) One(p)

\* C11: handling a response takes every mutation that it reports as accepted
\* off the durable queue and lowers the pending count by exactly one for each
\* of them (and for each mutation given up in the same response); when the
\* queue is empty after it, the count is 0.
AcknowledgedLeaveQueue ==
    [][\A p \in BagToSet(pushes) : Handles(p) =>
          /\ ReportedBy(p, TRUE) \cap Queue' = {}
          /\ Count' = Count - Cardinality(ReportedBy(p, TRUE))
                            - Cardinality(hist'.dropped \ hist.dropped)
          /\ Queue' = {} => Count' = 0]_vars

\* this step is push() catching the failure of the fetch of p
FailsOn(p) == p.stage # "reading" /\ PushFails /\ pushes' = pushes (-) One(p)

ResultFor(p, mid) ==
    LET rs == p.response.results
    IN rs[CHOOSE i \in 1..Len(rs) : rs[i].mutationId = mid]

Reported(p) == ReportedBy(p, TRUE) \cup ReportedBy(p, FALSE)

RetryCount(d, mid) == d.pendingMutations[mid].retryCount

RetryBudgetKept ==
    /\ [](/\ \A mid \in Queue : RetryCount(db, mid) < MaxRetries
          /\ \A mid \in BagToSet(hist.rejected) : CopiesIn(mid, hist.rejected) <= MaxRetries
          /\ \A mid \in BagToSet(hist.notified) : CopiesIn(mid, hist.notified) <= 1)
    /\ [][\A p \in BagToSet(pushes) : Handles(p) =>
             \A mid \in ReportedBy(p, FALSE) \cap Queue :
                 RetryCount(db, mid) = MaxRetries - 1 =>
                     mid \notin Queue' /\ CopiesIn(mid, hist'.notified) = 1]_vars

\* the mutation queued by this step, if the step is a local operation
Queued == db'.pendingMutations[hist'.created[Len(hist'.created)]]

LocalStep(operation) ==
    /\ Len(hist'.created) = Len(hist.created) + 1
    /\ Queued.operation = operation

\* the pull whose response this step applies
Applies(s) == s.stage = "replied" /\ SyncResponse /\ syncs' = syncs (-) One(s)

\* C15: a delete, by deletePrompt, deleteGroup or the deleted ids of a pull
\* packet, sets isDeleted on the stored record and removes no record: an
\* entity id that is in the durable store is in it after every step.
StoredEntitiesStay ==
    [][/\ \A tab \in Tables : DOMAIN db[tab] \subseteq DOMAIN db'[tab]
       /\ LocalStep("delete") =>
              LET tab == TableOf(Queued.entityType)
              IN Queued.entityId \in DOMAIN db[tab] =>
                     IsDeleted(db'[tab][Queued.entityId])
       /\ \A s \in BagToSet(syncs) : Applies(s) =>
              \A tab \in Tables :
                  \A id \in SeqToSet(s.packet.changes[tab].deleted) \cap DOMAIN db[tab] :
                      IsDeleted(db'[tab][id])]_vars

\* a stored prompt was flagged by a local delete, another by a pulled one
DeletedBothWays ==
    /\ "prompt-1" \in DOMAIN db.prompts /\ IsDeleted(db.prompts["prompt-1"])
    /\ "prompt-2" \in DOMAIN db.prompts /\ IsDeleted(db.prompts["prompt-2"])
    /\ \E mid \in SeqToSet(hist.created) \cap hist.changed : TRUE
    /\ syncs = EmptyBag

\* the view holds the store's data (hydrate() has run since the page loaded)
Quiescent == store.isHydrated

\* C16: at every quiescent point each soft-deleted entity of the durable
\* store is also in the view with isDeleted set, and each soft-deleted entity
\* of the view is in the durable store with isDeleted set: after local
\* deletes, after pulled deletes and after hydrate().
DeletedKeptInViewAndStore ==
    Quiescent =>
        \A tab \in Tables :
            /\ \A id \in DOMAIN db[tab] :
                  IsDeleted(db[tab][id]) =>
                      id \in DOMAIN store[tab] /\ IsDeleted(store[tab][id])
            /\ \A id \in DOMAIN store[tab] :
                  IsDeleted(store[tab][id]) =>
                      id \in DOMAIN db[tab] /\ IsDeleted(db[tab][id])

\* this step is hydrate()
Hydrates == phase = "loaded" /\ phase' = "hydrated"

\* C17: right after hydrate() the view's prompts, versions and groups are
\* exactly the records of the durable store that are not deleted, the pending
\* count is the number of queued mutations, and the cursor is the persisted
\* lastSyncId, 0 when there is no metadata row.
HydratedViewIsStore ==
    [][Hydrates =>
          /\ \A tab \in Tables :
                /\ DOMAIN store'[tab] = {id \in DOMAIN db'[tab] : ~IsDeleted(db'[tab][id])}
                /\ \A id \in DOMAIN store'[tab] : store'[tab][id] = db'[tab][id]
          /\ Count' = Cardinality(DOMAIN db'.pendingMutations)
          /\ Cursor' = IF db'.syncMetadata = <<>> THEN 0
                       ELSE db'.syncMetadata[1].lastSyncId]_vars

\* hydrate() has just run on a store with a deleted prompt, a live prompt, a
\* queued mutation and a persisted cursor
HydratedFromUsedStore ==
    /\ phase = "hydrated"
    /\ \E id \in DOMAIN db.prompts : IsDeleted(db.prompts[id])
    /\ \E id \in DOMAIN db.prompts : ~IsDeleted(db.prompts[id])
    /\ Queue # {}
    /\ db.syncMetadata # <<>> /\ db.syncMetadata[1].lastSyncId > 0

\* the ids that the local operations are called with
Targets(entityType) == IF entityType = "prompt" THEN PromptTargets ELSE GroupTargets

\* this step is an update or a delete of an entity that the view lacks
MissesView(entityType, id) ==
    /\ store.isHydrated
    /\ id \notin DOMAIN store[TableOf(entityType)]
    /\ \/ \E u \in PromptUpdates \cup GroupUpdates : UpdateEntity(entityType, id, u)
       \/ DeleteEntity(entityType, id)

\* C18: updatePrompt, updateGroup, deletePrompt and deleteGroup with an id
\* that is not in the view change nothing: the view, the durable store, the
\* queue and the pending count are as before.
MissingIdIsNoOp ==
    [][\A entityType \in {"prompt", "group"} :
          \A id \in Targets(entityType) :
              MissesView(entityType, id) => store' = store /\ db' = db]_vars

\* this step is a create of the given type
Creates(entityType) ==
    \E data \in PromptData \cup GroupData \cup VersionData : CreateEntity(entityType, data)

\* the ids that the step adds to a table of the view
NewInView(tab) == DOMAIN store'[tab] \ DOMAIN store[tab]

\* C19: createPrompt, createGroup and createPromptVersion put one entity with
\* an id that was in neither the view nor the durable store into the view, the
\* durable store holds it with the same fields, exactly one mutation is added
\* to the queue, {create, the entity's type, the new id, retryCount 0}, and
\* the pending count goes up by one.
CreateStoresAndQueues ==
    [][\A entityType \in EntityTypes : Creates(entityType) =>
          LET tab == TableOf(entityType)
          IN /\ Cardinality(NewInView(tab)) = 1
             /\ \A id \in NewInView(tab) :
                   /\ \A t \in Tables : id \notin DOMAIN db[t]
                   /\ id \in DOMAIN db'[tab]
                   /\ db'[tab][id] = store'[tab][id]
                   /\ store'[tab][id].id = id
                   /\ Cardinality(Queue' \ Queue) = 1
                   /\ \A mid \in Queue' \ Queue :
                         /\ db'.pendingMutations[mid].operation = "create"
                         /\ db'.pendingMutations[mid].entityType = entityType
                         /\ db'.pendingMutations[mid].entityId = id
                         /\ db'.pendingMutations[mid].retryCount = 0
             /\ Queue \subseteq Queue'
             /\ Count' = Count + 1]_vars

\* a version created on this client is in the view and in the durable store,
\* and its create is the one queued mutation
CreatedVersionQueued ==
    /\ Count = 1
    /\ \E mid \in Queue :
          /\ db.pendingMutations[mid].operation = "create"
          /\ db.pendingMutations[mid].entityType = "prompt_version"
          /\ db.pendingMutations[mid].entityId \in DOMAIN store.promptVersions
          /\ db.pendingMutations[mid].entityId \in DOMAIN db.promptVersions

\* C20: at every quiescent point each entity of the view that is not deleted
\* has a record with the same id and the same field values in the durable
\* store, whatever local creates, updates, deletes and pull packets came before.
LiveViewIsStored ==
    Quiescent =>
        \A tab \in Tables :
            \A id \in DOMAIN store[tab] :
                ~IsDeleted(store[tab][id]) =>
                    id \in DOMAIN db[tab] /\ db[tab][id] = store[tab][id]

\* the view shows a pulled prompt with a local edit, after a pull that
\* delivered a foreign delete
EditedAfterPulls ==
    /\ Quiescent /\ syncs = EmptyBag
    /\ "prompt-1" \in DOMAIN store.prompts /\ store.prompts["prompt-1"].title = "T2"
    /\ "prompt-2" \in DOMAIN store.prompts /\ IsDeleted(store.prompts["prompt-2"])
    /\ \E id \in DOMAIN store.groups : ~IsDeleted(store.groups[id])

\* this step is the callback of one of the engine's timers
TimerFires == PollTick \/ PushTimerFires \/ FollowUpFires

\* the requests and the push() calls under way
Started == BagCardinality(syncs) + BagCardinality(pushes)

\* C21: between stop() and the next start() no timer of the engine starts a
\* pull or a push, whatever was in flight when stop() was called, and stop()
\* leaves the pending queue as it is.
StoppedMeansQuiet ==
    [][/\ (phase = "stopped" /\ TimerFires) => Started' <= Started
       /\ Stop => db'.pendingMutations = db.pendingMutations]_vars

Status == store.syncState.status

\* C22: a loss of connectivity sets the status to offline whatever it was, and
\* while the page lives and connectivity is down the status stays offline,
\* whatever requests were in flight when it was lost.
OfflineUntilBack ==
    [][/\ (GoOffline /\ Listening) => Status' = "offline"
       /\ (Status = "offline" /\ ~online /\ ~online' /\ phase' = phase)
             => Status' = "offline"]_vars

\* this step hands a request to fetch
Issues ==
    \/ \E s \in BagToSet(syncs') : s.stage = "sent" /\ CopiesIn(s, syncs') > CopiesIn(s, syncs)
    \/ \E p \in BagToSet(pushes') : p.stage = "sent" /\ CopiesIn(p, pushes') > CopiesIn(p, pushes)

\* the entities of the view and of the durable store
Entities == <<store.prompts, store.promptVersions, store.groups,
              db.prompts, db.promptVersions, db.groups>>

\* a poll tick, a push tick, forceSync or forcePush
TickOrForce == PollTick \/ PushTimerFires \/ ForceSync \/ ForcePush

\* C23: no pull or push request is handed to fetch while the device is
\* offline, and a pull tick, forceSync, a push tick or forcePush while offline
\* starts nothing and leaves the queue, the entities and the cursor as they are.
NothingSentOffline ==
    [][/\ Issues => online'
       /\ (~online /\ TickOrForce) =>
              /\ syncs' = syncs /\ pushes' = pushes
              /\ db'.pendingMutations = db.pendingMutations
              /\ Entities' = Entities
              /\ Cursor' = Cursor]_vars

\* a mutation made offline is in the queue
StillQueued == \E m \in hist.offline : m.id \in Queue

\* the cursor is above the one that each offline mutation was made at
Advanced == \A m \in hist.offline : Cursor > m.cursor

FirstClientId == hist.firstClientId

\* C25: the client identity is minted once: an engine that init() has set up
\* holds the clientId that the first init() persisted, after any pulls, pushes
\* and reloads, and every push request carries it.
ClientIdMintedOnce ==
    /\ phase \in {"inited", "started", "stopped"} => engine.clientId = FirstClientId
    /\ \A p \in BagToSet(pushes) :
          p.stage = "sent" => p.request.clientId = FirstClientId

\* the metadata record
Meta(d) == d.syncMetadata[1]

\* this step is an init() that mints a clientId
Mints == EngineInit /\ db' # db

\* C26: updateSyncMetadata(patch) changes only the fields of the patch: the
\* write of a pull packet (lastSyncId, lastSyncedAt) keeps the stored clientId,
\* and the write of init() (clientId) keeps the stored lastSyncId and
\* lastSyncedAt.
MetadataPatchKeepsRest ==
    [][/\ \A s \in BagToSet(syncs) : (Applies(s) /\ HasMetadata(db)) =>
              Meta(db').clientId = Meta(db).clientId
       /\ (Mints /\ HasMetadata(db)) =>
              /\ Meta(db').lastSyncId = Meta(db).lastSyncId
              /\ Meta(db').lastSyncedAt = Meta(db).lastSyncedAt]_vars

\* C27: an engine that was given a clientId in its configuration holds that
\* clientId after init(), and its push requests carry it.
ConfiguredClientIdUsed ==
    /\ phase \in {"inited", "started"} => engine.clientId = ConfiguredClientId
    /\ \A p \in BagToSet(pushes) :
          p.stage = "sent" => p.request.clientId = ConfiguredClientId

\* the entities that a delta installs, and the ids it touches
Installed(delta) == SeqToSet(delta.created) \cup SeqToSet(delta.updated)

Touched(delta) == {e.id : e \in Installed(delta)} \cup SeqToSet(delta.deleted)

\* what applying a delta of a packet does to one map of entities
DeltaApplied(m, m2, delta) ==
    /\ \A e \in Installed(delta) : e.id \in DOMAIN m2 /\ m2[e.id] = e
    /\ \A id \in SeqToSet(delta.deleted) :
          IF id \in DOMAIN m THEN id \in DOMAIN m2 /\ IsDeleted(m2[id])
          ELSE id \notin DOMAIN m2
    /\ \A id \in (DOMAIN m) \ Touched(delta) : id \in DOMAIN m2 /\ m2[id] = m[id]
    /\ DOMAIN m2 \subseteq (DOMAIN m) \cup Touched(delta)

\* C28: applying a pull packet installs each entity of created and updated in
\* the view and in the durable store with the server's values, flags each id
\* of deleted that has a record and adds none for an id that has no record,
\* leaves the other entities and the queue as they are, and sets the cursor
\* to packet.syncId when that is above the cursor.
PacketApplied ==
    [][\A s \in BagToSet(syncs) : Applies(s) =>
          /\ \A tab \in Tables :
                /\ DeltaApplied(store[tab], store'[tab], s.packet.changes[tab])
                /\ DeltaApplied(db[tab], db'[tab], s.packet.changes[tab])
          /\ db'.pendingMutations = db.pendingMutations
          /\ Count' = Count
          /\ s.packet.syncId > Cursor =>
                Cursor' = s.packet.syncId /\ Meta(db').lastSyncId = s.packet.syncId]_vars

\* a prompt that was deleted on this client (its delete is still queued) is
\* back in the view and in the durable store with the title another client
\* gave it
ResurrectedByPull ==
    /\ \E mid \in Queue \cap hist.changed :
          /\ db.pendingMutations[mid].operation = "delete"
          /\ db.pendingMutations[mid].entityId = "prompt-1"
    /\ "prompt-1" \in DOMAIN store.prompts
    /\ ~IsDeleted(store.prompts["prompt-1"]) /\ store.prompts["prompt-1"].title = "R"
    /\ "prompt-1" \in DOMAIN db.prompts
    /\ ~IsDeleted(db.prompts["prompt-1"]) /\ db.prompts["prompt-1"].title = "R"


\* the packet of a pull, applied once more to the state that its application
\* has just produced
AgainInView(s) == ApplyServerChanges(store', s.packet)

AgainInStore(s) == PersistServerChanges(db', s.packet, FreshClientId')

\* C29: applying the same pull packet twice in a row yields the same view,
\* durable store and cursor as applying it once.
AppliedTwiceIsOnce ==
    [][\A s \in BagToSet(syncs) : Applies(s) =>
          /\ AgainInView(s) = store'
          /\ AgainInStore(s) = db']_vars

\* C30: when a pull fails, by a rejected fetch or by a response that is not
\* ok, the status becomes error, lastError holds the message of the error,
\* onSyncError is called with it, and the entities, the cursor and the pending
\* queue are as they were.
PullFailureReported ==
    [][\A s \in BagToSet(syncs), fault \in SyncFaults : SyncFailsWith(s, fault) =>
          /\ Status' = "error"
          /\ store'.syncState.lastError = SyncErrorMessage(fault)
          /\ hist'.syncErrors = Append(hist.syncErrors, SyncErrorMessage(fault))
          /\ Entities' = Entities
          /\ Cursor' = Cursor /\ Meta(db') = Meta(db)
          /\ db'.pendingMutations = db.pendingMutations /\ Count' = Count]_vars

\* a pull was answered with a response that is not ok, after a pull that moved
\* the cursor and with a mutation in the queue
PullFailedAfterProgress ==
    /\ Status = "error"
    /\ hist.syncErrors = << SyncErrorMessage("not ok") >>
    /\ store.syncState.lastError = SyncErrorMessage("not ok")
    /\ Cursor > 0
    /\ Queue # {}


\* the cursor of a request body of POST /api/sync
CursorOf(req) == IF "lastSyncId" \in DOMAIN req THEN req.lastSyncId ELSE 0

\* the exchange that a step leaves in syncs
Answered == CHOOSE s \in BagToSet(syncs') : TRUE

\* this step is the server answering a request to POST /api/sync of a client
\* of the HTTP interface
Answers ==
    /\ syncs' # syncs /\ syncs' # EmptyBag
    /\ Answered.stage = "answered"
    /\ Answered.packet = SyncEndpoint(mockDB.operations, Answered.request, clock)

\* C31: every response of the sync endpoint has a syncId that is not below the
\* request's lastSyncId, and a request whose lastSyncId is at or beyond the
\* server's latest write is answered with an empty delta, hasMore false and
\* the request's lastSyncId as syncId.
SyncIdNotBehindRequest ==
    [][Answers =>
          /\ Answered.packet.syncId >= CursorOf(Answered.request)
          /\ CursorOf(Answered.request) >= currentSyncId =>
                 /\ Answered.packet.changes = EmptyChanges
                 /\ ~Answered.packet.hasMore
                 /\ Answered.packet.syncId = CursorOf(Answered.request)]_vars

\* a request with a cursor beyond the server's counter was answered, after a
\* write of another client
AnsweredBeyondLatest ==
    /\ currentSyncId > SeedMockData.sid
    /\ \E s \in BagToSet(syncs) :
          /\ s.stage = "answered"
          /\ CursorOf(s.request) > currentSyncId
          /\ s.packet.syncId = CursorOf(s.request)

\* the request body without its limit
WithoutLimit(req) == [k \in (DOMAIN req) \ {"limit"} |-> req[k]]

\* C32: a sync request with limit 0 is answered like the same request without
\* a limit: with the changes after lastSyncId, up to the default limit, and a
\* cursor past them.
ZeroLimitIsDefault ==
    [][(Answers /\ "limit" \in DOMAIN Answered.request /\ Answered.request.limit = 0) =>
          Answered.packet = SyncEndpoint(mockDB.operations, WithoutLimit(Answered.request),
                                         clock)]_vars

\* the server after the mutations of a batch, each posted in a request of its
\* own, in the order of the batch
RECURSIVE OneByOne(_, _)
OneByOne(S, batch) ==
    IF batch = <<>> THEN S
    ELSE OneByOne(MutationsEndpoint(S, <<Head(batch)>>, clock).S, Tail(batch))

\* the server has no entity map for the kind of m, or m updates an entity that
\* the server does not hold
Refused(S, m) ==
    \/ m.entityType \notin EntityTypes
    \/ m.operation = "update" /\ m.entityId \notin DOMAIN S.db[TableOf(m.entityType)]

\* the exchange that a step leaves in pushes
AnsweredBatch == CHOOSE p \in BagToSet(pushes') : TRUE

\* this step is the server answering a request to POST /api/mutations of a
\* client of the HTTP interface
AnswersBatch ==
    /\ pushes' # EmptyBag /\ AnsweredBatch.stage = "answered"
    /\ PostMutations(AnsweredBatch.batch)

\* C33: the mutations endpoint applies the mutations of a batch in their
\* order, each to the state the mutations before it left; a mutation of an
\* unknown entity kind, or an update of a missing entity, gets a failure
\* result and changes nothing, and every other mutation of the batch is
\* applied and reported: there is one result per mutation, in order.
BatchAppliedInOrder ==
    [][AnswersBatch =>
          LET batch == AnsweredBatch.batch
              results == AnsweredBatch.response.results
          IN /\ Len(results) = Len(batch)
             /\ ServerState' = OneByOne(ServerState, batch)
             /\ \A i \in 1..Len(batch) :
                   LET before == OneByOne(ServerState, SubSeq(batch, 1, i - 1))
                       alone == MutationsEndpoint(before, << batch[i] >>, clock)
                   IN /\ results[i] = alone.response.results[1]
                      /\ results[i].mutationId = batch[i].id
                      /\ results[i].success <=> ~Refused(before, batch[i])
                      /\ Refused(before, batch[i]) => alone.S = before
                      /\ ~Refused(before, batch[i]) => alone.S.sid = before.sid + 1]_vars

\* a batch whose first mutation was refused for its entity kind and whose
\* second mutation created a prompt
AppliedAfterRefusal ==
    \E p \in BagToSet(pushes) :
        /\ p.stage = "answered" /\ Len(p.batch) = 2
        /\ p.batch[1].entityType = "tag" /\ ~p.response.results[1].success
        /\ p.batch[2].operation = "create" /\ p.response.results[2].success
        /\ p.batch[2].entityId \in DOMAIN mockDB.prompts

\* the entities written after the cursor c, each with the state of its latest
\* operation
LatestAfter(c) ==
    LET ops == {mockDB.operations[i] : i \in {j \in DOMAIN mockDB.operations :
                                                mockDB.operations[j].syncId > c}}
        keyOf(op) == <<TableOf(op.entityType), op.entityId>>
        last(k) == CHOOSE op \in ops :
                       keyOf(op) = k /\ \A o \in ops : keyOf(o) = k => o.syncId <= op.syncId
    IN [k \in {keyOf(op) : op \in ops} |->
           IF last(k).operation = "delete" THEN Deleted ELSE last(k).entity]

\* the run of requests that a step leaves in syncs
Paged == CHOOSE s \in BagToSet(syncs') : TRUE

\* this step is a client paging through POST /api/sync
Pages ==
    /\ syncs' # syncs /\ syncs' # EmptyBag
    /\ Paged.stage = "paged"
    /\ Paged.result = PageThrough(mockDB.operations, Paged.request.lastSyncId,
                                  Paged.request.limit, EmptyMap)

\* C34: a client that starts at a cursor c and requests with the syncId of the
\* previous response, with any positive limit, until hasMore is false has
\* received the server's latest state of every entity written after c (its
\* latest create or update record, or its id as deleted), and ends with the
\* server's latest syncId as cursor.
PagingComplete ==
    [][Pages =>
          /\ Paged.result.received = LatestAfter(Paged.request.lastSyncId)
          /\ Paged.result.cursor = currentSyncId]_vars

\* a run of pages of one operation each has delivered, from the start, a
\* prompt that was edited after the seed and another that was deleted
PagedOverEdits ==
    \E s \in BagToSet(syncs) :
        /\ s.stage = "paged" /\ s.request = [lastSyncId |-> 0, limit |-> 1]
        /\ s.result.cursor = currentSyncId /\ currentSyncId = SeedMockData.sid + 2
        /\ s.result.received[<<"prompts", "prompt-1">>].title = "R"
        /\ s.result.received[<<"prompts", "prompt-2">>] = Deleted

\* the group ids and prompt ids that a selector may be asked for
GroupIds == DOMAIN store.groups \cup {"group-9"}

PromptIds == DOMAIN store.prompts \cup {"prompt-9"}

\* the entities of a map of the view that are not deleted
Live(m) == {m[k] : k \in {j \in DOMAIN m : ~IsDeleted(m[j])}}

\* C35: in every reachable state each selector returns only entities whose
\* isDeleted flag is not set, and returns every entity of the view that is
\* not deleted and meets the selector's criterion: all prompts, all groups,
\* the prompts with isFavorite set, the prompts of the group, the versions of
\* the prompt.
SelectorsShowLive ==
    /\ selectActivePrompts(store) = Live(store.prompts)
    /\ selectActiveGroups(store) = Live(store.groups)
    /\ selectFavoritePrompts(store) = {p \in Live(store.prompts) : IsFavorite(p)}
    /\ \A gid \in GroupIds :
          selectPromptsByGroup(store, gid)
              = {p \in Live(store.prompts) : "groupId" \in DOMAIN p /\ p.groupId = gid}
    /\ \A pid \in PromptIds :
          selectPromptVersions(store, pid)
              = {v \in Live(store.promptVersions) : v.promptId = pid}

\* the view holds a deleted prompt, favorites, prompts in groups and a version
SelectorsFilter ==
    /\ "prompt-2" \in DOMAIN store.prompts /\ IsDeleted(store.prompts["prompt-2"])
    /\ selectFavoritePrompts(store) # {}
    /\ selectActivePrompts(store) # Values(store.prompts)
    /\ selectPromptsByGroup(store, "group-3") # {}
    /\ selectPromptVersions(store, "prompt-1") # {}
    /\ selectActiveGroups(store) # {}

\* the durable entity tables hold what the server's operation op wrote: the
\* record with the operation's stamp or a later one, or, for a delete, no
\* record that is neither flagged nor later
Holds(d, op) ==
    LET tab == TableOf(op.entityType)
        id == op.entityId
    IN IF op.operation = "delete"
       THEN id \in DOMAIN d[tab] =>
                IsDeleted(d[tab][id]) \/ d[tab][id].syncId > op.syncId
       ELSE id \in DOMAIN d[tab] /\ d[tab][id].syncId >= op.syncId

\* the operations up to the cursor c that no later operation up to c on the
\* same entity has replaced
NetUpTo(c) ==
    LET ops == {mockDB.operations[i] : i \in {j \in DOMAIN mockDB.operations :
                                                mockDB.operations[j].syncId <= c}}
    IN {op \in ops : \A o \in ops :
            (o.entityType = op.entityType /\ o.entityId = op.entityId) => o.syncId <= op.syncId}

\* C36: a pull packet is persisted as one batch: in every state, and so
\* wherever the process stops, a persisted lastSyncId of c means that the
\* durable entity tables hold the net changes of the operations up to c.
CursorNotAheadOfEntities ==
    HasMetadata(db) => \A op \in NetUpTo(Meta(db).lastSyncId) : Holds(db, op)

\* the lastSyncId that hydrate() would read from IndexedDB
PersistedCursor == IF HasMetadata(db) THEN Meta(db).lastSyncId ELSE 0

\* the view is hydrated and no pull or push is under way
AtRest == store.isHydrated /\ syncs = EmptyBag /\ pushes = EmptyBag

\* C37: the persisted metadata follows the cursor: whenever the view is
\* hydrated and no pull or push is under way, the lastSyncId of the metadata
\* record is the cursor of the view, after pulls and after pushes that moved
\* the cursor, so that a restart resumes from the last cursor reached.
MetadataFollowsCursor == AtRest => PersistedCursor = Cursor

\* C38: the status reflects the work in flight: whenever the status is idle,
\* no pull request and no push request is in flight, however pulls and pushes
\* interleave.
IdleMeansNothingInFlight ==
    Status = "idle" => Posted(syncs) = EmptyBag /\ Posted(pushes) = EmptyBag

\* the other client has written; it writes once
ServerSettled == currentSyncId > SeedMockData.sid

\* the engine has caught up with the server and has no pull to make
CaughtUp ==
    /\ Cursor = currentSyncId
    /\ syncs = EmptyBag /\ engine.followUps = NoFollowUp

\* C39: a pull response with hasMore true makes the engine start another pull
\* without a poll tick, and against a server that is reachable and is not
\* written to any more the pulls come to an end with hasMore false and the
\* client's cursor at the server's latest syncId.
FollowUpChainEnds ==
    /\ [][\A s \in BagToSet(syncs) : (Applies(s) /\ s.packet.hasMore) =>
              engine'.followUps = engine.followUps + 1]_vars
    /\ [][FollowUpFires =>
              \E n \in BagToSet(syncs') :
                  /\ n.stage = "sent" /\ n.request.lastSyncId = Cursor
                  /\ CopiesIn(n, syncs') = CopiesIn(n, syncs) + 1]_vars
    /\ [][\A s \in BagToSet(syncs) : (Applies(s) /\ CaughtUp') => ~s.packet.hasMore]_vars
    /\ (ServerSettled /\ phase = "started") ~> CaughtUp

\* the engine has pulled every operation of a log longer than one response
PulledInTwoPages ==
    /\ CaughtUp /\ phase = "started"
    /\ currentSyncId > SyncLimit
    /\ (1 .. currentSyncId) \subseteq hist.delivered

\* C40: start() is idempotent: on an engine that is running it sets no poll
\* timer and no push timer and starts no pull, and after any sequence of
\* start(), stop() and push scheduling the engine has at most one interval
\* timer and at most one pending push timer.
StartIsIdempotent ==
    /\ [][StartRepeated => client' = client]_vars
    /\ [](engine.pollTimers <= 1 /\ engine.pushTimers <= 1)

\* start() was called on a running engine, and the engine has one timer of
\* each kind
StartedTwice ==
    /\ hist.startsWhileRunning > 0
    /\ phase = "started" /\ engine.isRunning
    /\ engine.pollTimers = 1 /\ engine.pushTimers = 1

====
